---- MODULE Spec2Model ----
(***************************************************************************)
(* The cursor execution state machine of apsw (src/src/apsw.c) on top of   *)
(* the prepared-statement cache, with the per-object in-use flag that      *)
(* guards the regions where the interpreter lock is released.              *)
(*                                                                         *)
(* A thread runs atomically while it holds the interpreter lock.  The lock *)
(* is given up inside sqlite3_step (APSW_BEGIN_ALLOW_THREADS), inside      *)
(* statementcache_prepare / statementcache_next (bracketed by hand with    *)
(* self->inuse=1 ... self->inuse=0) and while a Python callback runs (the  *)
(* exec tracer, the row tracer).  Every action below is one such atomic    *)
(* segment of a public method.  NDEBUG build: assert() does nothing.       *)
(***************************************************************************)
EXTENDS Integers, Sequences, FiniteSets, TLC

VARIABLES
  mode,      \* how the application drives the cursors (fixed by Init)
  sqltext,   \* per cursor: the SQL text of its current call
  conn,      \* struct Connection: db, inuse, stmtcache, its capacity
  cursors,   \* struct APSWCursor, one per cursor object
  units,     \* the APSWStatement objects, by handle
  pool,      \* statement cache: the units available for reuse, oldest first
  threads,   \* per thread: position inside the public method it is running
  result,    \* per thread: what the last finished method call returned
  gh         \* history variables used to state the properties; closed
             \* says that Connection_close has succeeded

vars == <<mode, sqltext, conn, cursors, units, pool, threads, result, gh>>

-----------------------------------------------------------------------------
(* Bounds of the model *)

MaxCacheSize == 2   \* largest statementcachesize given to Connection()
MaxChain == 2       \* most statements in one SQL text
MaxBatch == 2       \* most binding sets in one executemany batch

Threads == {"t1", "t2"}
Cursors == {"c1", "c2"}

(* Every unit a run can hold at once: the pool, one per cursor, and one    *)
(* more while statementcache_next has the old and the new unit in hand.    *)
Handles == 1 .. (MaxCacheSize + Cardinality(Cursors) + 1)

-----------------------------------------------------------------------------
(* The engine, as far as the cursor sees it.  A statement is one of three  *)
(* kinds; an SQL text is a sequence of them.                               *)
(*   A   one parameter without a name, no row     INSERT ... VALUES(?)     *)
(*   B   no parameter, one row                    SELECT 1                 *)
(*   C   one parameter named n, two rows          SELECT ... WHERE x>:n    *)
(* Whether a text compiles depends on the schema at that moment, so the    *)
(* engine's answer to a compile is decided when it is asked.               *)
(*                                                                         *)
(* The text of a call is the application's.  The model fixes its k-th      *)
(* statement, and whether anything follows it, when that statement is      *)
(* first handed to statementcache_prepare: known are the statements fixed  *)
(* so far, open says that more text follows them.  A place in the text is  *)
(* the index of the statement found there; 0 is the NULL pointer.          *)

Stmts == {"A", "B", "C"}

\* sqlite3_bind_parameter_count
PCount(s) == CASE s = "A" -> 1 [] s = "B" -> 0 [] s = "C" -> 1 [] OTHER -> 0

\* sqlite3_bind_parameter_name: "" is the NULL of a slot without a name
PName(s, arg) == IF s = "C" THEN "n" ELSE ""

\* rows the statement produces before sqlite3_step answers SQLITE_DONE
NRows(s) == CASE s = "A" -> 0 [] s = "B" -> 1 [] s = "C" -> 2 [] OTHER -> 0

NewText == [known |-> <<>>, open |-> TRUE]

NoReveal == [sql |-> "", more |-> FALSE]

SQLITE_OK == "SQLITE_OK"
SQLITE_ERROR == "SQLITE_ERROR"
SQLITE_ROW == "SQLITE_ROW"
SQLITE_DONE == "SQLITE_DONE"
SQLITE_SCHEMA == "SQLITE_SCHEMA"

(* The application's callbacks and iterators can fail in the scenario of   *)
(* one thread, the engine also where each thread has its own cursor; the   *)
(* scenario of a shared cursor is about what the threads do to each other, *)
(* and nothing fails in it.  Every error code takes the same branch of the *)
(* code, so one stands for all.                                            *)
Faults == mode = "seq"

ErrorCodes == IF mode \in {"seq", "own"} THEN {SQLITE_ERROR} ELSE {}

\* sqlite3_prepare_v2: what the engine may answer
CompileAnswers == {SQLITE_OK} \cup ErrorCodes

\* whether a Python exception is set when sqlite3_step returns
StepExceptions == IF Faults THEN BOOLEAN ELSE {FALSE}

\* what the exec tracer and the row tracer may answer
ExecTraceAnswers == IF Faults THEN {"true", "false", "raise"} ELSE {"true"}
RowTraceAnswers == IF Faults THEN {"row", "none", "raise"} ELSE {"row"}

-----------------------------------------------------------------------------
(* Bindings: NULL, a fast sequence of values, or a dict of names.  The     *)
(* value "bad" has no SQLite type (APSWCursor_dobinding raises TypeError). *)

NoBindings == [kind |-> "null", vals |-> <<>>]
SeqBindings(vs) == [kind |-> "seq", vals |-> vs]
DictBindings(ks) == [kind |-> "dict", vals |-> ks]

BindingSets ==
  { NoBindings, SeqBindings(<<>>), SeqBindings(<<"v">>), SeqBindings(<<"v", "v">>),
    SeqBindings(<<"bad">>), DictBindings(<<"n">>), DictBindings(<<>>) }

\* an object that is neither a dict nor a sequence: PySequence_Fast fails
NotASequence == [kind |-> "notseq", vals |-> <<>>]

-----------------------------------------------------------------------------
(* What the application does is one of four scenarios, fixed by mode:      *)
(*   seq     one thread drives one cursor, with any statement and any      *)
(*           bindings;                                                     *)
(*   own     two threads, each with a cursor of its own on the shared      *)
(*           connection, run the same SQL;                                 *)
(*   shared  two threads call into the same cursor;                        *)
(*   pooled  two threads, each with a cursor of its own, run two           *)
(*           statements on a connection whose cache keeps one unit, and    *)
(*           the engine reports no error.                                  *)
(* The two-thread scenarios give no values to bind: there the statement    *)
(* with a parameter fails in its bindings.                                 *)

Statements ==
  IF mode = "seq" THEN Stmts ELSE IF mode = "pooled" THEN {"A", "B"} ELSE {"B"}

\* the bindings argument of execute, and what a batch may yield
Arguments ==
  IF mode = "seq" THEN BindingSets \cup {NotASequence}
  ELSE {NoBindings, SeqBindings(<<>>)}

\* the statementcachesize argument of the connection
CacheSizes ==
  IF mode = "seq" THEN {-1, 0, MaxCacheSize}
  ELSE IF mode = "own" THEN -1 .. MaxCacheSize
  ELSE {1}

\* whether the cursors have an exec tracer and a row tracer set
Tracers(m) ==
  IF m = "seq" THEN {<<FALSE, FALSE>>, <<TRUE, TRUE>>} ELSE {<<TRUE, TRUE>>}

\* the ways the text can go on at place k
Reveals(text, k) ==
  IF k <= Len(text.known) THEN {NoReveal}
  ELSE {[sql |-> s, more |-> m] : s \in Statements,
                                  m \in IF Len(text.known) + 1 < MaxChain THEN BOOLEAN
                                        ELSE {FALSE}}

(* The text with the statement at place k fixed.  A place past the known   *)
(* text is where the text goes on (a unit can point further only when the  *)
(* cursor was given another text while the unit was in use).               *)
Revealed(text, k, rev) ==
  IF k <= Len(text.known) THEN text
  ELSE [known |-> Append(text.known, rev.sql), open |-> rev.more]

Located(text, k) == IF k <= Len(text.known) THEN k ELSE Len(text.known) + 1

(* The batch iterator is the application's object.  What PyIter_Next gets  *)
(* from it is decided when it is asked: a binding set (or an object that   *)
(* is none), the end of the iteration, or an exception.  The cursor keeps  *)
(* the iterator (present) and the model counts the items it has yielded.   *)
Exhausted == [kind |-> "stop", vals |-> <<>>]
IterRaises == [kind |-> "raise", vals |-> <<>>]

BatchItems == Arguments \ {NoBindings}

NoIter == [present |-> FALSE, n |-> 0]
NewIter == [present |-> TRUE, n |-> 0]

\* PyIter_Next: what the iterator may answer
IterAnswers(it) ==
  {Exhausted} \cup (IF Faults THEN {IterRaises} ELSE {})
              \cup (IF it.n < MaxBatch THEN BatchItems ELSE {})

-----------------------------------------------------------------------------
(* The objects *)

C_BEGIN == "C_BEGIN"
C_ROW == "C_ROW"
C_DONE == "C_DONE"

\* APSWCursor_init: the fields of a new cursor
APSWCursor_init ==
  [ inuse |-> 0, statement |-> 0, status |-> C_DONE,
    bindings |-> NoBindings, bindingsoffset |-> 0,
    emiter |-> NoIter, emoriginalquery |-> 0,
    exectrace |-> FALSE, rowtrace |-> FALSE ]

\* Connection_new: the fields of a connection before Connection_init
Connection_new == [db |-> FALSE, inuse |-> 0, stmtcache |-> FALSE, maxentries |-> 0]

\* an APSWStatement that holds no engine handle
NoUnit == [live |-> FALSE, lent |-> FALSE, sql |-> "", next |-> 0, rowsleft |-> 0, err |-> SQLITE_OK]

\* a thread that is inside no method
Idle == [pc |-> "idle", self |-> "c1", op |-> "", h |-> 0, err |-> ""]

\* result of a call: the value returned and the exception raised ("" if none)
NoResult ==
  [op |-> "", self |-> "c1", force |-> FALSE, exc |-> "", val |-> "", more |-> "", fin |-> ""]

(* The part of the state one thread's segment works on: its cursor (cur),  *)
(* the thread's error indicator (err, "" when no exception is set), the    *)
(* cache and its units, the last SQLite code (res), the last C return      *)
(* value (rc, or the handle returned), and the history of the cursor:      *)
(*   log     <<binding set, place>> of every statement that has finished   *)
(*   setidx  the binding set in use (1 for execute)                        *)
(*   bound   the positions of the bindings given to the last statement     *)
(*   failed  the binding set in use when a call of the batch failed        *)
(*   rows    the number of rows next has returned of the statement in hand  *)
(*   filtered  the number of its rows the row tracer has answered None to   *)
(*   evicted the cursor whose release evicted a unit in the last step of a  *)
(*           method ("" if none did), followed in the pooled scenario       *)
(*   last    what the cache was last asked: the release of a unit, or how   *)
(*           an acquire was served (from the pool, or by a compile)         *)
(*   eng     the first error the engine has reported since the call was     *)
(*           entered: from compile, step or finalize, and its code          *)
(* cache is the connection's pointer to its statement cache (stmtcache).   *)
(*   more    what the batch iterator answered last in this call            *)
(*   fin     what the engine answered when resetcursor released the unit   *)
Machine(t, c) ==
  [ cur |-> cursors[c], th |-> threads[t], err |-> threads[t].err, res |-> SQLITE_OK, rc |-> 0,
    units |-> units, pool |-> pool, maxentries |-> conn.maxentries, cache |-> conn.stmtcache,
    bad |-> gh.bad, log |-> gh.log[c], setidx |-> gh.setidx[c], bound |-> gh.bound[c],
    failed |-> gh.failed[c], rows |-> gh.rows[c], filtered |-> gh.filtered[c],
    last |-> gh.last,
    eng |-> gh.eng, evicted |-> "",
    text |-> sqltext[c], force |-> FALSE, more |-> "", fin |-> "", out |-> NoResult ]

\* the cache has not been asked anything
NoEvent == [ev |-> "none", sql |-> ""]

\* the cache has been asked something about a unit of the statement sql
Event(ev, sql) == [ev |-> ev, sql |-> sql]

\* the engine has reported no error
NoError == [from |-> "", code |-> SQLITE_OK]

\* the first error of a call: the one before, or code reported from a call
Reported(eng, from, code) ==
  IF eng.from = "" /\ code # SQLITE_OK THEN [from |-> from, code |-> code] ELSE eng

\* the history of a connection on which nothing has happened
NoHistory ==
  [bad |-> FALSE, log |-> [c \in Cursors |-> <<>>], setidx |-> [c \in Cursors |-> 0],
   bound |-> [c \in Cursors |-> <<>>], failed |-> [c \in Cursors |-> 0],
   rows |-> [c \in Cursors |-> 0], filtered |-> [c \in Cursors |-> 0],
   last |-> NoEvent, eng |-> NoError, evicted |-> "",
   closed |-> FALSE]

\* SET_EXC: raise the exception of a failing SQLite code unless one is already set
SET_EXC(res, err) == IF res # SQLITE_OK /\ err = "" THEN "SQLError" ELSE err

-----------------------------------------------------------------------------
(* The statement cache.  statementcache.c is not among the sources; the    *)
(* four operations follow sections 3 and 4.1 of the specification.         *)

RemoveAt(s, i) == SubSeq(s, 1, i - 1) \o SubSeq(s, i + 1, Len(s))

\* what the engine answers when a unit is reset/finalized: the error of the
\* failed step, else fres (success, or an error of its own)
sqlite3_reset(u, fres) == IF u.err # SQLITE_OK THEN u.err ELSE fres

FinalizeAnswers == {SQLITE_OK} \cup ErrorCodes

\* eviction taking a unit that is lent to another cursor, if there is one
Victim_lent(M, h) ==
  LET lent == {g \in Handles : M.units[g].live /\ M.units[g].lent /\ g # h}
  IN IF lent = {} THEN Head(M.pool) ELSE CHOOSE g \in lent : TRUE

\* the unit evicted when h is released into a full pool: the one released
\* longest ago
Victim(M, h) == Head(M.pool)

(* release(unit): back to the pool when the cache has capacity and the     *)
(* engine reported no error, evicting the least recently released unit     *)
(* when the pool is full; otherwise the unit is finalized.  Releasing a    *)
(* unit that is not live is a double finalize.                             *)
statementcache_finalize(M, h, fres) ==
  LET u == M.units[h]
      res == sqlite3_reset(u, fres)
  IN IF ~u.live
       THEN [M EXCEPT !.bad = TRUE, !.res = res, !.last = NoEvent]
     ELSE IF res = SQLITE_OK /\ M.maxentries > 0
       THEN LET full == Len(M.pool) >= M.maxentries
                kept == IF full THEN Tail(M.pool) ELSE M.pool
                us == IF full THEN [M.units EXCEPT ![Victim(M, h)] = NoUnit] ELSE M.units
            IN [M EXCEPT !.pool = Append(kept, h),
                         !.units = [us EXCEPT ![h].lent = FALSE, ![h].next = 0,
                                              ![h].rowsleft = 0],
                         !.res = res, !.last = Event("released", u.sql),
                         !.evicted = IF full THEN M.th.self ELSE @]
     ELSE [M EXCEPT !.units[h] = NoUnit, !.res = res, !.eng = Reported(@, "finalize", res),
                    !.last = IF res = SQLITE_OK THEN Event("released", u.sql) ELSE NoEvent]

\* a failed compile that leaves a unit of the text in the cache
CompileFailed_cached(M, key) ==
  LET h == CHOOSE h \in Handles : ~M.units[h].live
  IN [M EXCEPT !.rc = 0, !.res = SQLITE_ERROR, !.err = SET_EXC(SQLITE_ERROR, @),
               !.last = Event("failed", key),
               !.eng = Reported(@, "compile", SQLITE_ERROR),
               !.units[h] = [NoUnit EXCEPT !.live = TRUE, !.sql = key],
               !.pool = IF M.maxentries > 0 THEN Append(@, h) ELSE @]

\* the engine refuses the text (or no unit can be made): the cache keeps
\* nothing of it and the caller gets no unit
CompileFailed(M, key) ==
  [M EXCEPT !.rc = 0, !.res = SQLITE_ERROR, !.err = SET_EXC(SQLITE_ERROR, @),
            !.last = Event("failed", key),
            !.eng = Reported(@, "compile", SQLITE_ERROR)]

(* acquire(sql_text): a pooled unit of the first statement of the text if  *)
(* there is one, else a fresh compile; the unit records the remainder.     *)
(* The text is the cursor's from place k on, rev is how it goes on there,  *)
(* cres the engine's answer should it be asked to compile.  rc is the unit *)
(* (0 when the compile failed and the exception is set).                   *)
statementcache_prepare(M0, k, rev, cres) ==
  LET at == Located(M0.text, k)
      M == [M0 EXCEPT !.text = Revealed(@, k, rev)]
      key == M.text.known[at]
      more == at < Len(M.text.known) \/ M.text.open
      hits == {i \in 1 .. Len(M.pool) : M.units[M.pool[i]].sql = key}
      free == {h \in Handles : ~M.units[h].live}
      fresh == [live |-> TRUE, lent |-> TRUE, sql |-> key, next |-> IF more THEN at + 1 ELSE 0,
                rowsleft |-> NRows(key), err |-> SQLITE_OK]
  IN IF M.maxentries > 0 /\ hits # {}
       THEN LET i == CHOOSE i \in hits : \A j \in hits : j <= i
                h == M.pool[i]
            IN [M EXCEPT !.pool = RemoveAt(@, i), !.units[h] = fresh, !.rc = h,
                         !.res = SQLITE_OK, !.last = Event("hit", key)]
     ELSE IF cres # SQLITE_OK \/ free = {}
       THEN CompileFailed(M, key)
     ELSE LET h == CHOOSE h \in free : \A g \in free : h <= g
          IN [M EXCEPT !.units[h] = fresh, !.rc = h, !.res = SQLITE_OK,
                       !.last = Event("compiled", key)]

(* next(unit): read the remainder recorded on the unit, release the unit,  *)
(* acquire the next one.  The cursor's statement is replaced (NULL when it *)
(* fails); res is the SQLite code.                                         *)
statementcache_next(M, fres, rev, cres) ==
  LET next == M.units[M.cur.statement].next
      F == statementcache_finalize(M, M.cur.statement, fres)
  IN IF F.res # SQLITE_OK
       THEN [F EXCEPT !.cur.statement = 0]
     ELSE LET P == statementcache_prepare(F, next, rev, cres)
          IN [P EXCEPT !.cur.statement = P.rc]

(* evict_all: finalize every unit of the pool.  What the engine answers    *)
(* to these finalizes is chosen where Connection_close calls it: the       *)
(* result of the call is not looked at (line 347).                         *)
statementcache_free(us, p) ==
  [h \in Handles |-> IF \E i \in 1 .. Len(p) : p[i] = h THEN NoUnit ELSE us[h]]

-----------------------------------------------------------------------------
(* Leaving a method *)

(* return NULL: the caller gets the exception that is set.  With none set, *)
(* tp_iternext means the iteration is over; anywhere else the interpreter  *)
(* raises SystemError (NULL result without an exception).                  *)
ReturnNULL(M) ==
  [M EXCEPT !.th.pc = "returned",
            !.failed = IF M.err # "" /\ M.th.pc # "entry" /\ M.cur.emiter.present
                         THEN M.setidx ELSE @,
            !.out = [op |-> M.th.op, self |-> M.th.self, force |-> M.force,
                     more |-> M.more, fin |-> M.fin, val |-> "NULL",
                     exc |-> IF M.err # "" THEN M.err
                             ELSE IF M.th.op = "next" THEN "StopIteration"
                             ELSE "SystemError"]]

\* return a value (self, None, a row)
ReturnValue(M, v) ==
  [M EXCEPT !.th.pc = "returned",
            !.rows = IF v = "row" THEN @ + 1 ELSE @,
            !.out = [op |-> M.th.op, self |-> M.th.self, force |-> M.force,
                     more |-> M.more, fin |-> M.fin, val |-> v, exc |-> M.err]]

\* a NULL pointer is dereferenced, or a sequence is read out of its bounds
Crash(M) == [M EXCEPT !.th.pc = "crashed"]

-----------------------------------------------------------------------------
(* resetcursor(self, force).  fres is the engine's answer should the unit  *)
(* be finalized, more the iterator's answer should it be asked.  The       *)
(* result code is M.res.                                                   *)

\* PyIter_Next(self->emiter) inside resetcursor, lines 2278-2291
resetcursor_emiter(M, force, status, more) ==
  IF ~force /\ status # C_DONE /\ M.cur.emiter.present
    THEN IF more.kind = "stop" THEN [M EXCEPT !.more = "stop"]
         ELSE IF more.kind = "raise"
           THEN [M EXCEPT !.more = "raise", !.err = IF @ = "" THEN "IterError" ELSE @]
         ELSE [M EXCEPT !.more = "item", !.res = SQLITE_ERROR,
                        !.err = IF @ = "" THEN "ExcIncomplete" ELSE @]
  ELSE M

\* resetcursor without line 2259: the cursor keeps the pointer to the unit
resetcursor_finalize_keeps(M, force, fres) ==
  LET F == statementcache_finalize(M, M.cur.statement, fres)
  IN [F EXCEPT !.err = IF ~force THEN SET_EXC(F.res, @) ELSE @,
               !.fin = F.res]

\* resetcursor without the check of line 2262
Unfinished_never(force, status, nextquery) == FALSE

\* line 2262: statements of the text are left and the caller is not failing
Unfinished(force, status, nextquery) == ~force /\ status # C_DONE /\ nextquery # 0

\* resetcursor finalizing the unit itself instead of handing it to the cache
resetcursor_finalize_direct(M, force, fres) ==
  [M EXCEPT !.units[M.cur.statement] = NoUnit,
            !.last = Event("released", M.units[M.cur.statement].sql),
            !.fin = SQLITE_OK,
            !.cur.statement = 0]

\* the unit goes back to the cache, lines 2254-2260
resetcursor_finalize(M, force, fres) ==
  LET F == statementcache_finalize(M, M.cur.statement, fres)
  IN [F EXCEPT !.err = IF ~force THEN SET_EXC(F.res, @) ELSE @,
               !.fin = F.res,
               !.cur.statement = 0]

resetcursor(M, force, fres, more) ==
  LET status == M.cur.status
      stmt == M.cur.statement
      nextquery == IF stmt # 0 THEN M.units[stmt].next ELSE 0
      saved == M.err
      \* PyErr_Fetch takes the pending exception away
      M1 == [M EXCEPT !.err = IF force THEN "" ELSE @,
                      !.cur.bindings = NoBindings,
                      !.cur.bindingsoffset = -1,
                      !.res = SQLITE_OK]
      M2 == IF stmt # 0 THEN resetcursor_finalize(M1, force, fres) ELSE M1
      M3 == IF Unfinished(force, status, nextquery) /\ M2.res = SQLITE_OK
              THEN [M2 EXCEPT !.res = SQLITE_ERROR,
                              !.err = IF @ = "" THEN "ExcIncomplete" ELSE @]
            ELSE M2
      M4 == resetcursor_emiter(M3, force, status, more)
      M5 == [M4 EXCEPT !.cur.emiter = NoIter,
                       !.cur.emoriginalquery = 0,
                       !.cur.status = C_DONE]
  IN IF force /\ saved # "" THEN [M5 EXCEPT !.err = saved] ELSE M5

-----------------------------------------------------------------------------
(* APSWCursor_dobindings.  rc is 0, or -1 with the exception set.          *)

\* the fast-sequence branch without the checks of lines 2610 and 2617
CountMatches_unchecked(more, left, nargs) == TRUE

\* the checks of lines 2610 and 2617 without the second: values may be left
CountMatches_atleast(more, left, nargs) == left >= nargs

\* the checks of lines 2610 and 2617: with another statement after this one
\* the values left must be enough, without one they must be all used
CountMatches(more, left, nargs) == IF more THEN left >= nargs ELSE left = nargs

\* the fast-sequence branch without line 2633: the offset stays
Advanced_not(off, nargs) == off

\* self->bindingsoffset+=nargs, line 2633
Advanced(off, nargs) == off + nargs

\* the fast-sequence branch, lines 2601-2635
dobindings_sequence(M, nargs) ==
  LET u == M.units[M.cur.statement]
      vals == M.cur.bindings.vals
      sz == Len(vals)
      off == M.cur.bindingsoffset
      srcs == [arg \in 1 .. nargs |-> arg + off]     \* 1-based position arg-1+off
      bads == {arg \in 1 .. nargs : vals[srcs[arg]] = "bad"}
  IN IF ~CountMatches(u.next # 0, sz - off, nargs)
       THEN [M EXCEPT !.rc = -1, !.err = "ExcBindings"]
     ELSE IF \E arg \in 1 .. nargs : srcs[arg] < 1 \/ srcs[arg] > sz
       THEN Crash(M)
     ELSE IF bads # {}
       THEN LET first == CHOOSE a \in bads : \A b \in bads : a <= b
            IN [M EXCEPT !.rc = -1, !.err = "TypeError",
                         !.bound = [arg \in 1 .. first - 1 |-> srcs[arg]]]
     ELSE [M EXCEPT !.rc = 0, !.bound = srcs, !.cur.bindingsoffset = Advanced(off, nargs)]

\* the dict branch taking every slot for a named one
NamelessSlots_none(sql, nargs) == {}

\* if(!key), line 2572: the slots sqlite3_bind_parameter_name has no name for
NamelessSlots(sql, nargs) == {arg \in 1 .. nargs : PName(sql, arg) = ""}

\* the dict branch, lines 2565-2599: the loop ends at the first slot
\* without a name; a slot whose name the dict does not have is passed over.
\* bound are the slots that were given a value.
dobindings_dict(M, nargs) ==
  LET u == M.units[M.cur.statement]
      keys == {M.cur.bindings.vals[i] : i \in 1 .. Len(M.cur.bindings.vals)}
      nameless == NamelessSlots(u.sql, nargs)
      reached == IF nameless = {} THEN nargs
                 ELSE (CHOOSE a \in nameless : \A b \in nameless : a <= b) - 1
      given == SelectSeq([arg \in 1 .. reached |-> arg],
                         LAMBDA arg : PName(u.sql, arg) \in keys)
  IN IF nameless # {}
       THEN [M EXCEPT !.rc = -1, !.err = "ExcBindings", !.bound = given]
     ELSE [M EXCEPT !.rc = 0, !.bound = given]

APSWCursor_dobindings(M) ==
  IF M.cur.statement = 0 THEN Crash(M)
  ELSE
  LET nargs == PCount(M.units[M.cur.statement].sql)
      b == M.cur.bindings
      M0 == [M EXCEPT !.bound = <<>>]
  IN IF nargs = 0 /\ b.kind = "null" THEN [M0 EXCEPT !.rc = 0]
     ELSE IF nargs > 0 /\ b.kind = "null" THEN [M0 EXCEPT !.rc = -1, !.err = "ExcBindings"]
     ELSE IF b.kind = "dict" THEN dobindings_dict(M0, nargs)
     ELSE dobindings_sequence(M0, nargs)

-----------------------------------------------------------------------------
(* APSWCursor_step, cut where the interpreter lock is given up.            *)

\* APSW_BEGIN_ALLOW_THREADS and the call of sqlite3_step, lines 2726-2728
BeginStep(M) ==
  IF M.cur.statement = 0 THEN Crash(M)
  ELSE [M EXCEPT !.cur.inuse = 1, !.th.pc = "step", !.th.h = M.cur.statement]

\* after the bindings straight to the first step, the exec tracer left out
AfterBindings_untraced(M) ==
  IF M.th.pc = "crashed" THEN M
  ELSE IF M.rc # 0 THEN ReturnNULL(M)
  ELSE BeginStep([M EXCEPT !.cur.status = C_BEGIN])

\* after the bindings: the exec tracer if there is one, then the first step
\* (lines 2949-2966, 3053-3070, 2864-2880)
AfterBindings(M) ==
  IF M.th.pc = "crashed" THEN M
  ELSE IF M.rc # 0 THEN ReturnNULL(M)
  ELSE IF M.cur.exectrace THEN [M EXCEPT !.th.pc = "exectrace"]
  ELSE BeginStep([M EXCEPT !.cur.status = C_BEGIN])

\* APSWCursor_doexectrace once the tracer has answered, lines 2681-2702
APSWCursor_doexectrace(M, answer) ==
  IF answer = "raise" THEN ReturnNULL([M EXCEPT !.err = "TracerError"])
  ELSE IF answer = "false" THEN ReturnNULL([M EXCEPT !.err = "ExcTraceAbort"])
  ELSE BeginStep([M EXCEPT !.cur.status = C_BEGIN])

\* APSWCursor_next without line 3125: the status stays C_ROW
NextRow_stays(M) ==
  IF M.cur.status = C_DONE THEN ReturnNULL(M)
  ELSE IF M.cur.statement = 0 THEN Crash(M)
  ELSE IF M.cur.rowtrace THEN [M EXCEPT !.th.pc = "rowtrace"]
  ELSE ReturnValue(M, "row")

\* the rest of APSWCursor_next once a row is there, lines 3120-3151
NextRow(M) ==
  IF M.cur.status = C_DONE THEN ReturnNULL(M)
  ELSE IF M.cur.statement = 0 THEN Crash([M EXCEPT !.cur.status = C_BEGIN])
  ELSE IF M.cur.rowtrace THEN [M EXCEPT !.cur.status = C_BEGIN, !.th.pc = "rowtrace"]
  ELSE ReturnValue([M EXCEPT !.cur.status = C_BEGIN], "row")

\* APSWCursor_next stepping the engine whatever the status
NextAgain_steps(M) == BeginStep(M)

\* the label again: of APSWCursor_next, lines 3113-3121
NextAgain(M) ==
  IF M.cur.status = C_BEGIN THEN BeginStep(M) ELSE NextRow(M)

\* APSWCursor_step returns to the method that called it
StepReturns(M, ok) ==
  IF M.th.op = "next"
    THEN IF ok THEN NextRow(M) ELSE ReturnNULL(M)
  ELSE IF ok THEN ReturnValue(M, "self") ELSE ReturnNULL(M)

\* the place in the text of the statement a unit was compiled from
Place(u, text) == IF u.next # 0 THEN u.next - 1 ELSE Len(text.known)

\* what sqlite3_step may answer for a unit
StepResults(u) ==
  (IF u.rowsleft > 0 THEN {SQLITE_ROW} ELSE {SQLITE_DONE}) \cup ErrorCodes
    \cup (IF mode = "seq" THEN {SQLITE_SCHEMA} ELSE {})

\* the effect of sqlite3_step without the error kept by the statement
sqlite3_step_forgets(u, res) ==
  IF res = SQLITE_ROW THEN [u EXCEPT !.rowsleft = @ - 1] ELSE u

\* the effect of sqlite3_step on the unit it ran on
sqlite3_step(u, res) ==
  IF res = SQLITE_ROW THEN [u EXCEPT !.rowsleft = @ - 1]
  ELSE IF res = SQLITE_DONE THEN u
  ELSE [u EXCEPT !.err = res]

\* line 2778 taking every statement for the last of its text
LastOfChain_always(u) == TRUE

\* if(!self->statement->next), line 2778: no statement follows in the text
LastOfChain(u) == u.next = 0

\* what PyIter_Next got from the batch iterator
Answered(next) ==
  IF next.kind = "stop" THEN "stop" ELSE IF next.kind = "raise" THEN "raise" ELSE "item"

\* if(!next), line 2799: the batch has no further binding set
BatchOver(next) == next.kind = "stop"

\* lines 2814-2818 without the last: the offset stays where the chain ended
BatchRestart_offset(F) ==
  [F EXCEPT !.cur.statement = 0, !.cur.bindings = NoBindings, !.setidx = @ + 1]

\* lines 2814-2818: the cursor gives up the finished unit and the bindings
\* of the last round, and the offset goes back to 0
BatchRestart(F) ==
  [F EXCEPT !.cur.statement = 0, !.cur.bindings = NoBindings, !.cur.bindingsoffset = 0,
            !.setidx = @ + 1]

\* the statement is over and nothing follows it: lines 2779-2831.  Either
\* the cursor is reset and the step returns, or the batch goes on (pc
\* "stepprepare") with the finished unit released and the next bindings.
StepLastOfChain(M, fres, next) ==
  IF ~M.cur.emiter.present
    THEN LET R == resetcursor(M, FALSE, fres, Exhausted)
         IN StepReturns(R, R.res = SQLITE_OK)
  ELSE IF BatchOver(next)
    THEN LET R == resetcursor([M EXCEPT !.more = "stop"], FALSE, fres, Exhausted)
         IN StepReturns(R, R.res = SQLITE_OK)
  ELSE LET M1 == [M EXCEPT !.cur.emiter.n = @ + 1, !.more = Answered(next)]
       IN IF next.kind = "raise"
            THEN StepReturns([M1 EXCEPT !.err = "IterError"], FALSE)
          ELSE LET F == statementcache_finalize(M1, M1.cur.statement, fres)
                   M2 == BatchRestart(F)
               IN IF next.kind = "notseq"
                    THEN StepReturns([M2 EXCEPT !.err = "TypeError"], FALSE)
                  ELSE [M2 EXCEPT !.cur.bindings = next, !.cur.inuse = 1,
                                  !.th.pc = "stepprepare"]

\* the switch of line 2731 treating a schema change like SQLITE_DONE
StepFailed_not_schema(res) == res \notin {SQLITE_ROW, SQLITE_DONE, SQLITE_SCHEMA}

\* the switch of line 2731 is in its error branch, lines 2745-2770:
\* SQLITE_SCHEMA falls through to it with every other code
StepFailed(res) == res \notin {SQLITE_ROW, SQLITE_DONE}

\* the error branch resetting the cursor like a caller that is not failing
StepErrorReset_checked(M, fres) == resetcursor(M, FALSE, fres, Exhausted)

\* lines 2760-2768: the status is C_DONE before the cursor is reset, and the
\* reset is forced when an exception is pending
StepErrorReset(M, fres) ==
  resetcursor([M EXCEPT !.cur.status = C_DONE], M.err # "", fres, Exhausted)

\* the statement has ended, the status left as it was
StatementOver_begin(M) == M

\* self->status=C_DONE, line 2776: the statement has ended, before the
\* cursor looks for another one
StatementOver(M) == [M EXCEPT !.cur.status = C_DONE]

\* sqlite3_step has answered: lines 2729-2848
APSWCursor_step(M, res, pyerr, fres, next) ==
  LET h == M.th.h
      M0 == [M EXCEPT !.cur.inuse = 0,
                      !.units[h] = IF @.live THEN sqlite3_step(@, res) ELSE @,
                      !.err = IF pyerr THEN "CallbackError" ELSE @,
                      !.eng = IF res \in {SQLITE_ROW, SQLITE_DONE} THEN @
                              ELSE Reported(@, "step", res)]
  IN IF res = SQLITE_ROW
       THEN StepReturns([M0 EXCEPT !.cur.status = C_ROW], M0.err = "")
     ELSE IF res = SQLITE_DONE /\ M0.err # ""
       THEN StepReturns([M0 EXCEPT !.cur.status = C_DONE], FALSE)
     ELSE IF StepFailed(res)
       THEN StepReturns(StepErrorReset(M0, fres), FALSE)
     ELSE IF M0.cur.statement = 0 THEN Crash([M0 EXCEPT !.cur.status = C_DONE])
     ELSE LET u == M0.units[M0.cur.statement]
              M1 == [StatementOver(M0) EXCEPT
                       !.log = Append(@, <<M0.setidx, Place(u, M0.text)>>)]
          IN IF LastOfChain(u) THEN StepLastOfChain(M1, fres, next)
             ELSE [M1 EXCEPT !.cur.inuse = 1, !.th.pc = "stepprepare"]

\* the flag cleared only when the cache has returned a unit
Unflagged_onsuccess(M) == IF M.rc = 0 THEN M ELSE [M EXCEPT !.cur.inuse = 0]

\* self->inuse=0 when the call of the cache is back, whatever it returned
\* (lines 2934, 2848, 3037)
Unflagged(M) == [M EXCEPT !.cur.inuse = 0]

(* statementcache_prepare / statementcache_next has returned: lines        *)
(* 2835-2880.  The text to prepare is there unless another call has taken  *)
(* it from the cursor meanwhile; the engine is then handed a NULL pointer. *)
(* So is the cache once Connection_close has set stmtcache to 0.           *)
APSWCursor_step_prepared(M, fres, rev, cres) ==
  LET P == IF ~M.cache THEN Crash(M)
           ELSE IF M.cur.statement = 0
             THEN IF M.cur.emoriginalquery = 0 THEN Crash(M)
                  ELSE LET A == statementcache_prepare(M, M.cur.emoriginalquery, rev, cres)
                       IN [A EXCEPT !.cur.statement = A.rc]
           ELSE IF M.units[M.cur.statement].next = 0 THEN Crash(M)
           ELSE LET N == statementcache_next(M, fres, rev, cres)
                IN [N EXCEPT !.err = SET_EXC(N.res, @)]
      M1 == [Unflagged(P) EXCEPT !.rows = 0, !.filtered = 0]
  IN IF P.th.pc = "crashed" THEN P
     ELSE IF M1.res # SQLITE_OK THEN StepReturns(M1, FALSE)
     ELSE AfterBindings(APSWCursor_dobindings(M1))

-----------------------------------------------------------------------------
(* The public methods of the cursor, up to the first point where the       *)
(* interpreter lock is given up.                                           *)

\* CHECK_USE with one flag for all the cursors of the connection
CHECK_USE_connection(M) == \E c \in Cursors : cursors[c].inuse # 0

\* CHECK_USE: the object is in use
CHECK_USE(M) == M.cur.inuse # 0

\* CHECK_CLOSED taking every connection for open
CHECK_CLOSED_never == FALSE

\* CHECK_CLOSED: the connection has been closed
CHECK_CLOSED == ~conn.db

Raise(M, exc) == ReturnNULL([M EXCEPT !.err = IF @ = "" THEN exc ELSE @])

\* the history of a new execute / executemany call
NewCall(M) ==
  [M EXCEPT !.text = NewText, !.log = <<>>, !.setidx = 1, !.bound = <<>>, !.failed = 0,
            !.rows = 0, !.filtered = 0]

\* APSWCursor_execute going on when the reset of line 2899 has failed
APSWCursor_execute_regardless(M, bindings, fres, more) ==
  IF CHECK_USE(M) THEN Raise(M, "ExcThreadingViolation")
  ELSE IF CHECK_CLOSED THEN Raise(M, "ExcConnectionClosed")
  ELSE LET R == NewCall(resetcursor(M, FALSE, fres, more))
       IN IF bindings.kind = "notseq" THEN Raise(R, "TypeError")
          ELSE [R EXCEPT !.cur.bindings = bindings, !.cur.inuse = 1,
                         !.th.pc = "prepare"]

\* APSWCursor_execute without the reset of line 2899
APSWCursor_execute_unreset(M, bindings, fres, more) ==
  IF CHECK_USE(M) THEN Raise(M, "ExcThreadingViolation")
  ELSE IF CHECK_CLOSED THEN Raise(M, "ExcConnectionClosed")
  ELSE IF bindings.kind = "notseq" THEN Raise(NewCall(M), "TypeError")
  ELSE [NewCall(M) EXCEPT !.cur.bindings = bindings, !.cur.inuse = 1, !.th.pc = "prepare"]

\* APSWCursor_execute, lines 2896-2934
APSWCursor_execute(M, bindings, fres, more) ==
  IF CHECK_USE(M) THEN Raise(M, "ExcThreadingViolation")
  ELSE IF CHECK_CLOSED THEN Raise(M, "ExcConnectionClosed")
  ELSE LET R == NewCall(resetcursor(M, FALSE, fres, more))
       IN IF R.res # SQLITE_OK THEN ReturnNULL(R)
          ELSE IF bindings.kind = "notseq" THEN Raise(R, "TypeError")
          ELSE [R EXCEPT !.cur.bindings = bindings, !.cur.inuse = 1,
                         !.th.pc = "prepare"]

\* APSWCursor_executemany without the resetcursor of line 2989
APSWCursor_executemany_unreset(M, first, fres, more) ==
  IF CHECK_USE(M) THEN Raise(M, "ExcThreadingViolation")
  ELSE IF CHECK_CLOSED THEN Raise(M, "ExcConnectionClosed")
  ELSE LET R == NewCall(M)
           M1 == [R EXCEPT !.cur.emiter = NewIter, !.more = Answered(first)]
           M2 == [M1 EXCEPT !.cur.emiter.n = 1]
       IN IF first.kind = "raise" THEN Raise(M1, "IterError")
          ELSE IF first.kind = "stop" THEN ReturnValue(M1, "self")
          ELSE IF first.kind = "notseq" THEN Raise(M2, "TypeError")
          ELSE [M2 EXCEPT !.cur.bindings = first, !.cur.inuse = 1,
                          !.th.pc = "prepare"]

\* APSWCursor_executemany, lines 2986-3035; first is what the new iterator
\* answers to the first PyIter_Next
APSWCursor_executemany(M, first, fres, more) ==
  IF CHECK_USE(M) THEN Raise(M, "ExcThreadingViolation")
  ELSE IF CHECK_CLOSED THEN Raise(M, "ExcConnectionClosed")
  ELSE LET R == NewCall(resetcursor(M, FALSE, fres, more))
           M1 == [R EXCEPT !.cur.emiter = NewIter, !.more = Answered(first)]
           M2 == [M1 EXCEPT !.cur.emiter.n = 1]
       IN IF R.res # SQLITE_OK THEN ReturnNULL(R)
          ELSE IF first.kind = "raise" THEN Raise(M1, "IterError")
          \* if(!next && PyErr_Occurred()): an exception the reset left pending
          ELSE IF first.kind = "stop" /\ M1.err # "" THEN ReturnNULL(M1)
          ELSE IF first.kind = "stop" THEN ReturnValue(M1, "self")
          ELSE IF first.kind = "notseq" THEN Raise(M2, "TypeError")
          ELSE [M2 EXCEPT !.cur.bindings = first, !.cur.inuse = 1,
                          !.th.pc = "prepare"]

\* statementcache_prepare has returned to execute / executemany:
\* lines 2934-2966 and 3035-3070 (the cache pointer is NULL after a
\* Connection_close whose sqlite3_close failed, lines 348-349)
APSWCursor_prepared(M, rev, cres) ==
  LET P == statementcache_prepare(M, 1, rev, cres)
      M1 == [Unflagged(P) EXCEPT !.cur.statement = P.rc]
  IN IF ~M.cache THEN Crash(M)
     ELSE IF P.rc = 0 THEN ReturnNULL(M1)
     ELSE LET u == M1.units[P.rc]
              M2 == [M1 EXCEPT !.cur.emoriginalquery =
                                  IF M.th.op = "executemany" THEN 1 ELSE @,
                               !.cur.bindingsoffset = 0]
          IN AfterBindings(APSWCursor_dobindings(M2))

\* APSWCursor_close, lines 3086-3099
APSWCursor_close(M, force, fres, more) ==
  IF CHECK_USE(M) THEN Raise(M, "ExcThreadingViolation")
  ELSE IF CHECK_CLOSED THEN ReturnValue(M, "None")
  ELSE LET R == resetcursor(M, force, fres, more)
       IN IF R.res # SQLITE_OK THEN ReturnNULL(R) ELSE ReturnValue(R, "None")

\* APSWCursor_next, lines 3110-3121
APSWCursor_next(M) ==
  IF CHECK_USE(M) THEN Raise(M, "ExcThreadingViolation")
  ELSE IF CHECK_CLOSED THEN Raise(M, "ExcConnectionClosed")
  ELSE NextAgain(M)

\* the row tracer has answered, lines 3140-3149
APSWCursor_dorowtrace(M, answer) ==
  IF answer = "raise" THEN ReturnNULL([M EXCEPT !.err = "TracerError"])
  ELSE IF answer = "none" THEN NextAgain([M EXCEPT !.filtered = @ + 1])
  ELSE ReturnValue(M, "row")

-----------------------------------------------------------------------------
(* The state machine *)

\* the history of a cursor is kept while a chain or a batch is under way
AtRest(cur) == cur.status = C_DONE

(* A handle is the address of a unit, and which address the allocator      *)
(* hands out decides nothing.  States are kept up to the naming of the     *)
(* handles: after every segment they are renamed in the order in which the *)
(* pool, the cursors and the threads refer to them.                        *)
HandleOrder(cs, ts, p) ==
  p \o <<cs["c1"].statement, cs["c2"].statement, ts["t1"].h, ts["t2"].h>>
    \o [i \in 1 .. Cardinality(Handles) |-> i]

RECURSIVE Distinct(_, _)
Distinct(order, seen) ==
  IF order = <<>> THEN seen
  ELSE LET h == Head(order)
       IN Distinct(Tail(order),
                   IF h = 0 \/ \E i \in 1 .. Len(seen) : seen[i] = h THEN seen
                   ELSE Append(seen, h))

\* the handles in the order of their new names
Renaming(cs, ts, p) == Distinct(HandleOrder(cs, ts, p), <<>>)

\* the rows returned and the cache's last event are followed where calls
\* come one after the other
Kept(x, none) == IF mode = "seq" THEN x ELSE none

\* the state after a segment of thread t on cursor c
Becomes(t, c, after) ==
  \E M \in {after} :
  \E cs \in {[cursors EXCEPT ![c] = M.cur]} :
  \E ts \in {[threads EXCEPT ![t] = IF M.th.pc = "returned"
                                       THEN [Idle EXCEPT !.pc = "returned", !.self = c]
                                     ELSE [M.th EXCEPT !.err = M.err]]} :
  \E old \in {Renaming(cs, ts, M.pool)} :
  \E name \in {[h \in 0 .. Len(old) |-> IF h = 0 THEN 0 ELSE CHOOSE i \in 1 .. Len(old) : old[i] = h]} :
  /\ cursors' = [d \in Cursors |-> [cs[d] EXCEPT !.statement = name[@]]]
  /\ threads' = [u \in Threads |-> [ts[u] EXCEPT !.h = name[@]]]
  /\ units' = [h \in Handles |-> M.units[old[h]]]
  /\ pool' = [i \in 1 .. Len(M.pool) |-> name[M.pool[i]]]
  /\ result' = IF M.th.pc = "returned" THEN [result EXCEPT ![t] = M.out] ELSE result
  /\ gh' = [gh EXCEPT !.bad = M.bad, !.log[c] = M.log, !.setidx[c] = M.setidx,
                      !.bound[c] = M.bound, !.failed[c] = M.failed,
                      !.rows[c] = Kept(M.rows, 0), !.filtered[c] = Kept(M.filtered, 0),
                      !.last = Kept(M.last, NoEvent),
                      !.eng = Kept(M.eng, NoError),
                      !.evicted = IF mode = "pooled" THEN M.evicted ELSE ""]
  /\ sqltext' = [sqltext EXCEPT ![c] = M.text]
  /\ UNCHANGED <<mode, conn>>

\* a thread enters a method of cursor c
Entering(t, c, op, force) ==
  [Machine(t, c) EXCEPT !.th = [Idle EXCEPT !.pc = "entry", !.self = c, !.op = op],
                        !.force = force]

NoCrash == \A u \in Threads : threads[u].pc # "crashed"

\* the application may have thread t call a method of cursor c now
MayCall(t, c) ==
  /\ conn.db \/ gh.closed
  /\ threads[t].pc = "idle"
  /\ NoCrash
  /\ \/ mode = "shared" /\ c = "c1"
     \/ mode \in {"seq", "own", "pooled"} /\ t = "t1" /\ c = "c1"
     \/ mode \in {"own", "pooled"} /\ t = "t2" /\ c = "c2"

\* thread t moves on from pc
Continues(t, at) == threads[t].pc = at /\ NoCrash

\* the answers that make a difference when cursor c is reset
FinalizeChoices(c) == IF cursors[c].statement # 0 THEN FinalizeAnswers ELSE {SQLITE_OK}

\* resetcursor only looks at whether the iterator has another item
MoreChoices(c, force) ==
  IF ~force /\ cursors[c].status # C_DONE /\ cursors[c].emiter.present
    THEN {Exhausted} \cup (IF Faults THEN {IterRaises} ELSE {}) \cup
         (IF cursors[c].emiter.n < MaxBatch THEN {NoBindings} ELSE {})
  ELSE {Exhausted}

\* Connection_init without line 480: a negative size reaches the cache
Connection_init_unclamped(statementcachesize) ==
  /\ ~conn.db /\ ~conn.stmtcache /\ ~gh.closed
  /\ conn' = [db |-> TRUE, inuse |-> 0, stmtcache |-> TRUE, maxentries |-> statementcachesize]
  /\ UNCHANGED <<mode, sqltext, cursors, units, pool, threads, result, gh>>

\* Connection_init, lines 477-541: the cache size is clamped at zero
Connection_init(statementcachesize) ==
  /\ ~conn.db /\ ~conn.stmtcache /\ ~gh.closed
  /\ conn' = [db |-> TRUE, inuse |-> 0, stmtcache |-> TRUE,
              maxentries |-> IF statementcachesize < 0 THEN 0 ELSE statementcachesize]
  /\ UNCHANGED <<mode, sqltext, cursors, units, pool, threads, result, gh>>

-----------------------------------------------------------------------------
(* Connection_close, lines 317-378: close(force) on every dependent, free  *)
(* the cache, then sqlite3_close with the interpreter lock released.       *)

\* what a method of the connection returns; fin is what the engine answered
\* when the last dependent that held a unit released it
ConnResult(force, exc, val, fin) ==
  [NoResult EXCEPT !.op = "connclose", !.force = force, !.exc = exc, !.val = val,
                   !.fin = fin]

\* the loop over the dependents closing none of them
Connection_close_dependent_skipped(S, t, c, force, fres, more) == S

\* one turn of the loop, lines 333-346: obj.close(force), and return NULL
\* when it fails
Connection_close_dependent(S, t, c, force, fres, more) ==
  IF S.exc # "" THEN S
  ELSE LET M == [Entering(t, c, "close", force) EXCEPT
                   !.cur = S.cursors[c], !.units = S.units, !.pool = S.pool,
                   !.bad = S.bad, !.last = S.last]
           R == APSWCursor_close(M, force, fres, more)
       IN [cursors |-> [S.cursors EXCEPT ![c] = R.cur], units |-> R.units, pool |-> R.pool,
           bad |-> R.bad, last |-> R.last, exc |-> R.out.exc,
           fin |-> IF R.out.fin # "" THEN R.out.fin ELSE S.fin]

\* the loop of lines 333-346 over the dependents in order
RECURSIVE Connection_close_dependents(_, _, _, _, _, _)
Connection_close_dependents(S, t, order, force, fres, more) ==
  IF order = <<>> THEN S
  ELSE Connection_close_dependents(
         Connection_close_dependent(S, t, Head(order), force, Head(fres), Head(more)),
         t, Tail(order), force, Tail(fres), Tail(more))

\* the state with the handles renamed (see Renaming)
Settle(cs, ts, us, p) ==
  \E old \in {Renaming(cs, ts, p)} :
  \E name \in {[h \in 0 .. Len(old) |-> IF h = 0 THEN 0 ELSE CHOOSE i \in 1 .. Len(old) : old[i] = h]} :
  /\ cursors' = [d \in Cursors |-> [cs[d] EXCEPT !.statement = name[@]]]
  /\ threads' = [u \in Threads |-> [ts[u] EXCEPT !.h = name[@]]]
  /\ units' = [h \in Handles |-> us[old[h]]]
  /\ pool' = [i \in 1 .. Len(p) |-> name[p[i]]]

\* the histories, those of the chains that cs has finished dropped
Forgotten(cs) ==
  [gh EXCEPT !.log = [c \in Cursors |-> IF AtRest(cs[c]) THEN <<>> ELSE @[c]],
             !.setidx = [c \in Cursors |-> IF AtRest(cs[c]) THEN 0 ELSE @[c]],
             !.bound = [c \in Cursors |-> IF AtRest(cs[c]) THEN <<>> ELSE @[c]],
             !.failed = [c \in Cursors |-> IF AtRest(cs[c]) THEN 0 ELSE @[c]],
             !.rows = [c \in Cursors |-> IF AtRest(cs[c]) THEN 0 ELSE @[c]],
             !.filtered = [c \in Cursors |-> IF AtRest(cs[c]) THEN 0 ELSE @[c]]]

\* thread t leaves Connection_close with an exception or a value
ConnReturns(t, force, exc, val, fin) ==
  /\ threads' = [threads EXCEPT ![t] = [Idle EXCEPT !.pc = "returned"]]
  /\ result' = [result EXCEPT ![t] = ConnResult(force, exc, val, fin)]

\* lines 324-349, up to the call of sqlite3_close.  Every cursor is at rest
\* when the loop is through, and their histories are dropped.
Connection_close(t, force, order, fres, more) ==
  IF ~conn.db
    THEN /\ ConnReturns(t, force, "", "None", "")
         /\ UNCHANGED <<mode, sqltext, conn, cursors, units, pool, gh>>
  ELSE IF conn.inuse # 0
    THEN /\ ConnReturns(t, force, "ExcThreadingViolation", "NULL", "")
         /\ UNCHANGED <<mode, sqltext, conn, cursors, units, pool, gh>>
  ELSE
    \E S \in {Connection_close_dependents(
                [cursors |-> cursors, units |-> units, pool |-> pool, bad |-> gh.bad,
                 last |-> gh.last, exc |-> "", fin |-> ""],
                t, order, force, fres, more)} :
      /\ UNCHANGED mode
      /\ IF S.exc # ""
           THEN /\ gh' = [Forgotten(S.cursors) EXCEPT !.bad = S.bad,
                                                       !.last = Kept(S.last, NoEvent)]
                /\ sqltext' = [c \in Cursors |->
                                 IF AtRest(S.cursors[c]) THEN NewText ELSE sqltext[c]]
                /\ Settle(S.cursors,
                          [threads EXCEPT ![t] = [Idle EXCEPT !.pc = "returned"]],
                          S.units, S.pool)
                /\ result' = [result EXCEPT ![t] = ConnResult(force, S.exc, "NULL", S.fin)]
                /\ UNCHANGED conn
         ELSE IF ~conn.stmtcache
           THEN /\ gh' = [gh EXCEPT !.bad = S.bad, !.last = Kept(S.last, NoEvent)]
                /\ UNCHANGED sqltext
                /\ Settle(S.cursors, [threads EXCEPT ![t] = [Idle EXCEPT !.pc = "crashed"]],
                          S.units, S.pool)
                /\ UNCHANGED <<conn, result>>
         ELSE /\ \E eres \in (IF S.pool = <<>> THEN {SQLITE_OK} ELSE FinalizeAnswers) :
                   gh' = [NoHistory EXCEPT !.bad = S.bad,
                                           !.eng = Reported(NoError, "evict", eres)]
              /\ sqltext' = [c \in Cursors |-> NewText]
              /\ Settle(S.cursors,
                        [threads EXCEPT ![t] = [Idle EXCEPT !.pc = "connclose",
                                                            !.op = "connclose"]],
                        statementcache_free(S.units, S.pool), <<>>)
              /\ conn' = [conn EXCEPT !.stmtcache = FALSE, !.inuse = 1]
              /\ result' = [result EXCEPT ![t].force = force, ![t].fin = S.fin]

\* sqlite3_close has answered: lines 352-377
Connection_closed(t, res) ==
  /\ conn' = [conn EXCEPT !.inuse = 0, !.db = IF res = SQLITE_OK THEN FALSE ELSE @]
  /\ gh' = [gh EXCEPT !.closed = (res = SQLITE_OK)]
  /\ IF res = SQLITE_OK THEN ConnReturns(t, result[t].force, "", "None", result[t].fin)
     ELSE ConnReturns(t, result[t].force, "SQLError", "NULL", result[t].fin)
  /\ UNCHANGED <<mode, sqltext, cursors, units, pool>>

\* the application closes the connection from its first thread, when no
\* call is under way; the connection holds the cursors it has made in either
\* order
ConnClose(t) ==
  /\ conn.db \/ gh.closed
  /\ t = "t1"
  /\ \A u \in Threads : threads[u].pc = "idle"
  /\ \E force \in BOOLEAN,
        order \in (IF mode \in {"own", "pooled"} THEN {<<"c1", "c2">>, <<"c2", "c1">>}
                   ELSE {<<"c1">>}) :
       \E fres \in [1 .. Len(order) -> FinalizeAnswers],
          more \in [1 .. Len(order) -> {Exhausted, IterRaises, NoBindings}] :
         /\ \A i \in 1 .. Len(order) : /\ fres[i] \in FinalizeChoices(order[i])
                                        /\ more[i] \in MoreChoices(order[i], force)
         /\ Connection_close(t, force, order, fres, more)

ConnClosed(t) ==
  /\ Continues(t, "connclose")
  /\ \E res \in {SQLITE_OK} \cup ErrorCodes : Connection_closed(t, res)

-----------------------------------------------------------------------------
(* The actions *)

Execute(t, c) ==
  /\ MayCall(t, c)
  /\ \E bindings \in Arguments,
        fres \in FinalizeChoices(c), more \in MoreChoices(c, FALSE) :
       Becomes(t, c, APSWCursor_execute(Entering(t, c, "execute", FALSE),
                                         bindings, fres, more))

ExecuteMany(t, c) ==
  /\ MayCall(t, c)
  /\ \E first \in IterAnswers(NewIter),
        fres \in FinalizeChoices(c), more \in MoreChoices(c, FALSE) :
       Becomes(t, c, APSWCursor_executemany(Entering(t, c, "executemany", FALSE),
                                             first, fres, more))

NextRowCall(t, c) ==
  /\ MayCall(t, c)
  /\ Becomes(t, c, APSWCursor_next(Entering(t, c, "next", FALSE)))

Close(t, c) ==
  /\ MayCall(t, c)
  /\ \E force \in BOOLEAN :
       \E fres \in FinalizeChoices(c), more \in MoreChoices(c, force) :
         Becomes(t, c, APSWCursor_close(Entering(t, c, "close", force), force, fres, more))

Prepared(t) ==
  /\ Continues(t, "prepare")
  /\ LET c == threads[t].self
     IN \E rev \in Reveals(sqltext[c], 1), cres \in CompileAnswers :
          Becomes(t, c, APSWCursor_prepared(Machine(t, c), rev, cres))

ExecTraced(t) ==
  /\ Continues(t, "exectrace")
  /\ \E answer \in ExecTraceAnswers :
       Becomes(t, threads[t].self, APSWCursor_doexectrace(Machine(t, threads[t].self), answer))

Stepped(t) ==
  /\ Continues(t, "step")
  /\ LET c == threads[t].self
         u == units[threads[t].h]
     IN \E res \in StepResults(u), pyerr \in StepExceptions :
          LET last == res = SQLITE_DONE /\ ~pyerr
          IN \E fres \in (IF last THEN FinalizeAnswers ELSE {SQLITE_OK}),
                next \in (IF last /\ cursors[c].emiter.present
                            THEN IterAnswers(cursors[c].emiter) ELSE {Exhausted}) :
               Becomes(t, c, APSWCursor_step(Machine(t, c), res, pyerr, fres, next))

StepPrepared(t) ==
  /\ Continues(t, "stepprepare")
  /\ LET c == threads[t].self
         k == IF cursors[c].statement = 0 THEN cursors[c].emoriginalquery
              ELSE units[cursors[c].statement].next
     IN \E fres \in FinalizeChoices(c), rev \in Reveals(sqltext[c], k),
           cres \in CompileAnswers :
          Becomes(t, c, APSWCursor_step_prepared(Machine(t, c), fres, rev, cres))

RowTraced(t) ==
  /\ Continues(t, "rowtrace")
  /\ \E answer \in RowTraceAnswers :
       Becomes(t, threads[t].self, APSWCursor_dorowtrace(Machine(t, threads[t].self), answer))

\* the caller has its answer; the history of a finished chain is dropped
Returned(t) ==
  /\ Continues(t, "returned")
  /\ LET c == threads[t].self
         served == IF gh.last.ev = "released" THEN gh.last ELSE NoEvent
     IN /\ gh' = IF AtRest(cursors[c])
                THEN [gh EXCEPT !.log[c] = <<>>, !.setidx[c] = 0, !.bound[c] = <<>>,
                                !.failed[c] = 0, !.rows[c] = 0, !.filtered[c] = 0,
                                !.last = served,
                                !.eng = NoError, !.evicted = ""]
              ELSE [gh EXCEPT !.last = served, !.eng = NoError, !.evicted = ""]
     /\ sqltext' = IF AtRest(cursors[c]) THEN [sqltext EXCEPT ![c] = NewText] ELSE sqltext
  /\ threads' = [threads EXCEPT ![t] = Idle]
  /\ result' = [result EXCEPT ![t] = NoResult]
  /\ UNCHANGED <<mode, conn, cursors, units, pool>>

InitMode(m) ==
  /\ mode = m
  /\ conn = Connection_new
  /\ units = [h \in Handles |-> NoUnit]
  /\ pool = <<>>
  /\ threads = [t \in Threads |-> Idle]
  /\ result = [t \in Threads |-> NoResult]
  /\ gh = NoHistory
  /\ sqltext = [c \in Cursors |-> NewText]
  /\ \E tr \in Tracers(m) :
       cursors = [c \in Cursors |->
                    [APSWCursor_init EXCEPT !.exectrace = tr[1], !.rowtrace = tr[2]]]

Init == InitMode("seq")

InitOwn == InitMode("own")

InitShared == InitMode("shared")

InitPooled == InitMode("pooled")

-----------------------------------------------------------------------------
(* Properties *)

Range(f) == {f[i] : i \in DOMAIN f}

\* the live units that are not lent to a cursor
Available == {h \in Handles : units[h].live /\ ~units[h].lent}

\* the cursors whose statement is the unit h
Holders(h) == {c \in Cursors : cursors[c].statement = h}

\* thread t has returned from a call of op on cursor c
Returns(t, c, op) ==
  threads[t].pc = "returned" /\ result[t].self = c /\ result[t].op = op

\* thread t enters a method in this step
Enters(t) == threads[t].pc = "idle" /\ threads'[t].pc # "idle"

\* the method thread t has entered in this step
Entered(t) == IF threads'[t].pc = "returned" THEN result'[t].op ELSE threads'[t].op

\* thread u is between the entry and the return of a method of cursor c
InFlight(u, c) ==
  threads[u].self = c /\ threads[u].pc \notin {"idle", "returned", "crashed", "connclose"}

\* thread u is inside sqlite3_step or the cache's call of sqlite3_prepare
InEngine(u, c) ==
  threads[u].self = c /\ threads[u].pc \in {"prepare", "step", "stepprepare"}

\* the call thread t has entered in this step was refused
Rejected(t) ==
  threads'[t].pc = "returned" /\ result'[t].exc = "ExcThreadingViolation"

(* C1: the live units the cache holds in its pool (live and not lent) are  *)
(* never more than the capacity the connection was configured with, which  *)
(* is never negative; with capacity 0 the pool stays empty.                *)
C1_PoolWithinCapacity ==
  /\ conn.maxentries >= 0
  /\ Cardinality(Available) <= conn.maxentries
  /\ Len(pool) <= conn.maxentries
  /\ Range(pool) = Available

\* the pool is full and the cursor holds one more unit
C1_PoolFull ==
  /\ conn.maxentries = MaxCacheSize
  /\ Len(pool) = conn.maxentries
  /\ cursors["c1"].statement # 0

(* C2: every live unit is either lent to exactly one cursor or in the pool *)
(* of the cache, never both and never lent to two cursors, whatever the    *)
(* interleaving of the cursors of the connection.                          *)
C2_LentOrPooled ==
  \A h \in Handles :
    units[h].live =>
      /\ Cardinality({i \in DOMAIN pool : pool[i] = h}) <= 1
      /\ \/ units[h].lent /\ Cardinality(Holders(h)) = 1 /\ h \notin Range(pool)
         \/ ~units[h].lent /\ Holders(h) = {} /\ h \in Range(pool)

\* one thread is inside sqlite3_step with the unit lent to its cursor while
\* the other thread has closed its cursor and the unit it held, of the same
\* statement, is in the pool
C2_LentAndPooled ==
  /\ threads["t1"].pc = "step"
  /\ cursors["c1"].statement # 0
  /\ Returns("t2", "c2", "close")
  /\ cursors["c2"].statement = 0
  /\ pool # <<>>
  /\ units[pool[1]].sql = units[cursors["c1"].statement].sql

(* C3: two threads, each driving its own cursor of one connection with the *)
(* same SQL, never get ThreadingViolation; no unit is finalized twice, and *)
(* none is finalized while a cursor still holds it.                        *)
C3_IndependentCursors ==
  /\ \A t \in Threads : result[t].exc # "ExcThreadingViolation"
  /\ ~gh.bad
  /\ \A c \in Cursors :
       cursors[c].statement # 0 =>
         units[cursors[c].statement].live /\ units[cursors[c].statement].lent

\* both threads are inside sqlite3_step, each on its own unit of the statement
C3_BothStepping ==
  /\ threads["t1"].pc = "step" /\ threads["t2"].pc = "step"
  /\ threads["t1"].h # threads["t2"].h
  /\ units[threads["t1"].h].sql = units[threads["t2"].h].sql

(* C4: a method of a cursor entered by a second thread while another       *)
(* method of that cursor is inside an engine call is refused at once with  *)
(* ThreadingViolation, and the cursor is left as it was.                   *)
C4_RejectedInEngineCall ==
  [][\A t \in Threads :
       (Enters(t) /\ \E u \in Threads \ {t} : InEngine(u, threads'[t].self))
         => (Rejected(t) /\ cursors' = cursors)]_vars

(* C5: at most one operation is in flight per cursor: execute or           *)
(* executemany entered between the entry and the return of another method  *)
(* of the cursor (from another thread, or from that method's own tracer)   *)
(* fails with ThreadingViolation.                                          *)
C5_OneInFlight ==
  [][\A t \in Threads :
       (/\ Enters(t)
        /\ Entered(t) \in {"execute", "executemany"}
        /\ \E u \in Threads \ {t} : InFlight(u, threads'[t].self))
         => Rejected(t)]_vars

(* C6: one execute of a text of several statements, followed by row pulls  *)
(* to exhaustion, runs the statements in the order of the text: a unit is  *)
(* held only when every statement before it has finished, the statements   *)
(* finish in the order 1, 2, 3, ... and the run ends with the last one.    *)
C6_ChainInOrder ==
  \A c \in Cursors :
    LET log == gh.log[c]
        text == sqltext[c]
        cur == cursors[c]
        first == \A i \in 1 .. Len(log) : log[i][1] = 1
    IN first =>
         /\ \A i \in 1 .. Len(log) : log[i][2] = i
         /\ (cur.statement # 0 /\ gh.setidx[c] = 1) =>
              Place(units[cur.statement], text) \in {Len(log), Len(log) + 1}
         /\ \A t \in Threads :
              (/\ log # <<>>
               /\ Returns(t, c, "execute") \/ Returns(t, c, "next")
               /\ result[t].exc \in {"", "StopIteration"}
               /\ cur.status = C_DONE)
                => (Len(log) = Len(text.known) /\ ~text.open)

\* the row pulls of a text of MaxChain statements have come to the end
C6_ChainExhausted ==
  /\ Returns("t1", "c1", "next")
  /\ result["t1"].exc = "StopIteration"
  /\ Len(gh.log["c1"]) = MaxChain
  /\ gh.setidx["c1"] = 1

\* close(force=false) is called on a cursor that is not DONE and has
\* statements of its text, or binding sets of its batch, left
ClosesUnfinished(t) ==
  /\ Enters(t)
  /\ Entered(t) = "close"
  /\ ~result'[t].force
  /\ LET cur == cursors[threads'[t].self]
     IN /\ cur.inuse = 0
        /\ cur.status # C_DONE
        /\ \/ cur.statement # 0 /\ units[cur.statement].next # 0
           \/ cur.emiter.present /\ result'[t].more = "item"

(* C7, as stated: close(force=false) on a cursor that is not DONE, with    *)
(* statements of the text or binding sets of the batch left, fails with    *)
(* IncompleteExecutionError.                                               *)
C7_Incomplete ==
  [][\A t \in Threads : ClosesUnfinished(t) => result'[t].exc = "ExcIncomplete"]_vars

(* C7, amended: that close fails; it fails with IncompleteExecutionError   *)
(* when the engine reports no error on releasing the unit, and with the    *)
(* engine's error when it does.                                            *)
C7_IncompleteOrEngineError ==
  [][\A t \in Threads :
       ClosesUnfinished(t) =>
         /\ result'[t].val = "NULL"
         /\ result'[t].exc = IF result'[t].fin \in {"", SQLITE_OK} THEN "ExcIncomplete"
                             ELSE "SQLError"]_vars

\* close(force=false) has failed with IncompleteExecutionError on a batch
\* whose iterator had another binding set
C7_ClosedUnfinished ==
  /\ Returns("t1", "c1", "close")
  /\ ~result["t1"].force
  /\ result["t1"].more = "item"
  /\ result["t1"].exc = "ExcIncomplete"

\* the entries of the log follow each other as the statements of the text
\* do, binding set after binding set
LogInOrder(c) ==
  LET log == gh.log[c]
      text == sqltext[c]
  IN \A i \in 1 .. Len(log) :
       IF i = 1 THEN log[i] = <<1, 1>>
       ELSE \/ log[i] = <<log[i - 1][1], log[i - 1][2] + 1>>
            \/ /\ log[i] = <<log[i - 1][1] + 1, 1>>
               /\ log[i - 1][2] = Len(text.known)
               /\ ~text.open

\* a batch has come to its end: every binding set has run the whole text
BatchComplete(c) ==
  \A t \in Threads :
    (/\ Returns(t, c, "executemany") \/ Returns(t, c, "next")
     /\ result[t].more = "stop"
     /\ result[t].exc \in {"", "StopIteration"})
      => Len(gh.log[c]) = gh.setidx[c] * Len(sqltext[c].known)

\* once a call of the batch has failed, no later binding set is taken up
BatchAborted(c) == gh.failed[c] # 0 => gh.setidx[c] = gh.failed[c]

(* C8: executemany over a batch of k binding sets binds and steps the      *)
(* statement to completion k times, once per binding set in the order of   *)
(* the iterator; when the run of a binding set fails, the call fails and   *)
(* no later binding set is bound or stepped.                               *)
C8_BatchRuns ==
  \A c \in Cursors : LogInOrder(c) /\ BatchComplete(c) /\ BatchAborted(c)

\* executemany has returned without a row from a call that found the
\* iterator of the batch exhausted
Drained(t, c) ==
  /\ Returns(t, c, "executemany")
  /\ result[t].exc = ""
  /\ cursors[c].status # C_ROW

\* the cursor is DONE and holds no unit
Settled(c) == cursors[c].status = C_DONE /\ cursors[c].statement = 0

\* nothing is left on the cursor
Clean(c) ==
  /\ Settled(c)
  /\ ~cursors[c].emiter.present
  /\ cursors[c].emoriginalquery = 0

(* C9: when no binding set makes the statement produce a row,              *)
(* executemany returns only after the iterator of the batch is exhausted;  *)
(* the cursor is then DONE without a unit and without an iterator, and     *)
(* close with force=false on such a cursor does not raise.                 *)
C9_BatchDrained ==
  [][/\ \A t \in Threads, c \in Cursors :
          Drained(t, c)' => (result'[t].more = "stop" /\ Clean(c)')
     /\ \A t \in Threads :
          (Enters(t) /\ Entered(t) = "close" /\ ~result'[t].force /\ Clean(threads'[t].self))
            => (result'[t].exc = "" /\ result'[t].val = "None")]_vars

(* C10: close(force=true), the first time and again, never raises and      *)
(* never finalizes a unit twice, whatever the engine answers to finalize.  *)
C10_ForcedCloseQuiet ==
  [][\A t \in Threads :
       (Enters(t) /\ Entered(t) = "close" /\ result'[t].force)
         => (result'[t].exc = "" /\ ~gh'.bad)]_vars

\* the text of cursor c is one statement, run by execute without a row tracer
SingleStatement(c) ==
  /\ Len(sqltext[c].known) = 1 /\ ~sqltext[c].open
  /\ gh.setidx[c] = 1
  /\ ~cursors[c].emiter.present
  /\ ~cursors[c].rowtrace

NoneLent == \A h \in Handles : ~units[h].lent

\* the cache is asked for a unit of the statement it was last given back,
\* without an error, while no unit is lent
AcquiresAgain ==
  /\ gh.last.ev = "released"
  /\ NoneLent
  /\ gh'.last.ev \in {"hit", "compiled", "failed"}
  /\ gh'.last.sql = gh.last.sql

C13_ClosedConnectionRefusesAll ==
  [][\A t \in Threads :
       gh.closed /\ Enters(t) /\ Entered(t) # "connclose" =>
         /\ threads'[t].pc = "returned"
         /\ UNCHANGED <<conn, cursors, units, pool>>
         /\ result'[t].exc = "ExcConnectionClosed"]_vars

(* C13: after the connection has been closed execute, executemany and next *)
(* fail with ConnectionClosedError and close returns None, all of them     *)
(* without a call of the engine or of the cache.                           *)
C13_ClosedConnectionRefuses ==
  [][\A t \in Threads :
       gh.closed /\ Enters(t) /\ Entered(t) # "connclose" =>
         /\ threads'[t].pc = "returned"
         /\ UNCHANGED <<conn, cursors, units, pool>>
         /\ IF Entered(t) = "close"
              THEN result'[t].exc = "" /\ result'[t].val = "None"
            ELSE result'[t].exc = "ExcConnectionClosed"]_vars

\* execute has been refused on a closed connection
C13_ExecuteRefused ==
  /\ gh.closed
  /\ Returns("t1", "c1", "execute")
  /\ result["t1"].exc = "ExcConnectionClosed"

(* C14: whenever execute, executemany or a row pull ends with an error, the *)
(* cursor is left in C_DONE.                                               *)
C14_ErrorLeavesDone ==
  \A t \in Threads :
    /\ threads[t].pc = "returned"
    /\ result[t].op \in {"execute", "executemany", "next"}
    /\ result[t].exc \notin {"", "StopIteration"}
    => cursors[result[t].self].status = C_DONE

(* C15: a call of execute, executemany, next or close(force=false) during   *)
(* which the engine has reported an error from compile, step or finalize    *)
(* ends with an exception, never with a row, self or the end of the rows.  *)
C15_EngineErrorReported ==
  \A t \in Threads :
    /\ threads[t].pc = "returned"
    /\ result[t].op \in {"execute", "executemany", "next", "close"}
    /\ ~result[t].force
    /\ gh.eng.from # ""
    => result[t].exc \notin {"", "StopIteration"}

(* C16: once Connection.close has succeeded the connection is marked       *)
(* closed, no cursor holds a unit, and the cache is gone with no unit left *)
(* alive; and while sqlite3_close runs the cursors have been closed and    *)
(* the cache torn down already, the engine connection still being open.    *)
C16_ClosedInOrder ==
  LET Emptied == /\ ~conn.stmtcache
                 /\ pool = <<>>
                 /\ \A c \in Cursors : cursors[c].statement = 0 /\ cursors[c].status = C_DONE
                 /\ \A h \in Handles : ~units[h].live
  IN /\ gh.closed => ~conn.db /\ Emptied
     /\ \A t \in Threads : threads[t].pc = "connclose" => conn.db /\ Emptied

\* Connection.close has succeeded, and a cursor gave its unit back on the way
C16_ClosedWithUnits ==
  /\ gh.closed
  /\ threads["t1"].pc = "returned"
  /\ result["t1"].op = "connclose" /\ result["t1"].exc = ""
  /\ result["t1"].fin = SQLITE_OK

\* thread t is in sqlite3_step and this step has it answer an error
StepFails(t) ==
  threads[t].pc = "step" /\ gh.eng.from = "" /\ gh'.eng.from = "step"

\* the unit thread t stepped is finalized and not pooled, and its cursor is
\* left in C_DONE without a unit
UnitDropped(t) ==
  LET c == threads[t].self
  IN /\ threads'[t].pc = "returned"
     /\ cursors'[c].status = C_DONE /\ cursors'[c].statement = 0
     /\ Cardinality({h \in Handles : units'[h].live})
          = Cardinality({h \in Handles : units[h].live}) - 1
     /\ [i \in 1 .. Len(pool') |-> units'[pool'[i]].sql]
          = [i \in 1 .. Len(pool) |-> units[pool[i]].sql]

(* C17 as stated: when sqlite3_step answers neither row nor done the unit  *)
(* is finalized and not pooled, the call fails with the engine's error,    *)
(* and the cursor is left in C_DONE without a unit.                        *)
C17_StepErrorIsEngines ==
  [][\A t \in Threads :
       StepFails(t) => UnitDropped(t) /\ result'[t].exc = "SQLError"]_vars

(* C17: when sqlite3_step answers neither row nor done the unit is         *)
(* finalized and not pooled, the cursor is left in C_DONE without a unit,  *)
(* and the call fails: with the exception that is pending if there is one  *)
(* (set before the step, or by a callback during it), else with the        *)
(* engine's error.                                                         *)
C17_StepErrorFails ==
  [][\A t \in Threads :
       StepFails(t) =>
         /\ UnitDropped(t)
         /\ result'[t].exc \in {"CallbackError"} \cup
              (IF threads[t].err # "" THEN {threads[t].err} ELSE {"SQLError"})]_vars

\* a row pull has failed with the error of the step
C17_StepFailed ==
  /\ Returns("t1", "c1", "next")
  /\ gh.eng.from = "step"
  /\ result["t1"].exc = "SQLError"
  /\ cursors["c1"].status = C_DONE /\ cursors["c1"].statement = 0

(* C18: when sqlite3_step answers SQLITE_SCHEMA the call returns the error *)
(* at once: nothing is compiled or taken from the cache and nothing is     *)
(* stepped between the failing step and the return.                        *)
C18_NoRetryOnSchema ==
  [][\A t \in Threads :
       StepFails(t) /\ gh'.eng.code = SQLITE_SCHEMA =>
         /\ threads'[t].pc = "returned"
         /\ result'[t].exc # ""
         /\ gh'.last.ev \notin {"hit", "compiled", "failed"}
         /\ \A h \in Handles : units'[h].live =>
              \E g \in Handles : units[g].live /\ units'[h] = units[g]]_vars

\* a row pull has failed on a statement the schema change made invalid
C18_SchemaChanged ==
  /\ Returns("t1", "c1", "next")
  /\ gh.eng = [from |-> "step", code |-> SQLITE_SCHEMA]
  /\ result["t1"].exc = "SQLError"

\* thread t, idle with cursor c in C_DONE, calls in this step something
\* other than execute and executemany
CalledInDone(t, c) ==
  /\ cursors[c].status = C_DONE
  /\ Enters(t) /\ Entered(t) \notin {"execute", "executemany"}
  /\ c = IF threads'[t].pc = "returned" THEN result'[t].self ELSE threads'[t].self

\* the cursor stays in C_DONE and the engine is not asked to compile or step
StaysDone(t, c) ==
  /\ cursors'[c].status = C_DONE
  /\ threads'[t].pc \notin {"prepare", "step", "stepprepare"}
  /\ Entered(t) = "next" =>
       threads'[t].pc = "returned" /\ UNCHANGED <<cursors, units, pool>>

(* C19 as stated: a cursor in C_DONE stays there, without a step of the    *)
(* engine, until execute or executemany is called, and every row pull in   *)
(* C_DONE reports the end of the rows.                                     *)
C19_DoneUntilExecute ==
  [][\A t \in Threads, c \in Cursors :
       CalledInDone(t, c) =>
         /\ StaysDone(t, c)
         /\ Entered(t) = "next" => result'[t].exc = "StopIteration"]_vars

(* C19: a cursor in C_DONE stays there, without a step of the engine,      *)
(* until execute or executemany is called; a row pull in C_DONE reports    *)
(* the end of the rows while the connection is open, and fails with        *)
(* ConnectionClosedError once it has been closed.                          *)
C19_DoneUntilExecuteOpen ==
  [][\A t \in Threads, c \in Cursors :
       CalledInDone(t, c) =>
         /\ StaysDone(t, c)
         /\ Entered(t) = "next" =>
              result'[t].exc = IF conn.db THEN "StopIteration" ELSE "ExcConnectionClosed"]_vars

\* a row pull in C_DONE has reported the end of the rows: the cursor still
\* has the iterator of the empty batch, which a step would have dropped
C19_PulledInDone ==
  /\ Returns("t1", "c1", "next")
  /\ result["t1"].exc = "StopIteration"
  /\ cursors["c1"].status = C_DONE
  /\ cursors["c1"].emiter.present

(* C20: while a thread is inside an engine call made for a cursor or for   *)
(* the connection, the interpreter lock released, the in-use flag of that  *)
(* object is set.                                                          *)
C20_FlagWhileUnlocked ==
  /\ \A t \in Threads, c \in Cursors : InEngine(t, c) => cursors[c].inuse = 1
  /\ \A t \in Threads : threads[t].pc = "connclose" => conn.inuse = 1

(* C21: when a unit with n parameters is bound from a sequence of sz       *)
(* values at offset off, the binding succeeds only if sz - off = n for the *)
(* last unit of the text and only if sz - off >= n when more follow; in    *)
(* every other case it fails with BindingCountError and binds nothing.     *)
C21_BindingCount ==
  [][\A t \in Threads :
       LET c == threads[t].self
           u == units'[cursors'[c].statement]
           n == PCount(u.sql)
           \* the offset is moved on by n when the binding succeeds
           off == IF threads'[t].pc = "returned" THEN cursors'[c].bindingsoffset
                  ELSE cursors'[c].bindingsoffset - n
           left == Len(cursors'[c].bindings.vals) - off
           fits == IF u.next = 0 THEN left = n ELSE left >= n
       IN (/\ threads[t].pc \in {"prepare", "stepprepare"}
           /\ threads'[t].pc \in {"exectrace", "step", "returned"}
           /\ cursors'[c].statement # 0
           /\ cursors'[c].bindings.kind = "seq")
          => /\ threads'[t].pc # "returned" => fits
             /\ ~fits => /\ threads'[t].pc = "returned"
                         /\ result'[t].exc = "ExcBindings"
                         /\ gh'.bound[c] = <<>>]_vars

\* the first unit of a text has taken one of two values, and the text goes on
C21_ValuesLeft ==
  /\ threads["t1"].pc = "step"
  /\ cursors["c1"].statement # 0
  /\ units[cursors["c1"].statement].next # 0
  /\ cursors["c1"].bindings = SeqBindings(<<"v", "v">>)
  /\ cursors["c1"].bindingsoffset = 1

(* C22 as stated: when the bindings are a dict, a slot of the unit that    *)
(* has no name is left untouched and the binding succeeds.                 *)
C22_NamelessSlotPassedOver ==
  [][\A t \in Threads :
       LET c == threads[t].self
           u == units'[cursors'[c].statement]
       IN (/\ threads[t].pc \in {"prepare", "stepprepare"}
           /\ threads'[t].pc \in {"exectrace", "step", "returned"}
           /\ cursors'[c].statement # 0
           /\ cursors'[c].bindings.kind = "dict"
           /\ \E arg \in 1 .. PCount(u.sql) : PName(u.sql, arg) = "")
          => /\ threads'[t].pc # "returned"
             /\ \A i \in 1 .. Len(gh'.bound[c]) : PName(u.sql, gh'.bound[c][i]) # ""]_vars

(* C22: when the bindings are a dict, a unit with a slot that has no name  *)
(* fails with BindingCountError; when every slot has a name the binding    *)
(* succeeds, and the slots given a value are those whose name the dict     *)
(* has: a name the dict lacks leaves its slot untouched.                   *)
C22_MissingNamePassedOver ==
  [][\A t \in Threads :
       LET c == threads[t].self
           u == units'[cursors'[c].statement]
           keys == {cursors'[c].bindings.vals[i] : i \in 1 .. Len(cursors'[c].bindings.vals)}
       IN (/\ threads[t].pc \in {"prepare", "stepprepare"}
           /\ threads'[t].pc \in {"exectrace", "step", "returned"}
           /\ cursors'[c].statement # 0
           /\ cursors'[c].bindings.kind = "dict")
          => IF \E arg \in 1 .. PCount(u.sql) : PName(u.sql, arg) = ""
               THEN threads'[t].pc = "returned" /\ result'[t].exc = "ExcBindings"
             ELSE /\ threads'[t].pc # "returned"
                  /\ {gh'.bound[c][i] : i \in 1 .. Len(gh'.bound[c])}
                       = {arg \in 1 .. PCount(u.sql) : PName(u.sql, arg) \in keys}]_vars

\* a statement with a named parameter runs on a dict that lacks the name
C22_NameMissing ==
  /\ threads["t1"].pc = "step"
  /\ cursors["c1"].statement # 0
  /\ units[cursors["c1"].statement].sql = "C"
  /\ cursors["c1"].bindings = DictBindings(<<>>)
  /\ gh.bound["c1"] = <<>>

(* C23: in a chain fed by one sequence, the unit at place k of the text    *)
(* binds exactly the positions o+1 .. o+n, o being the sum of the          *)
(* parameter counts of the statements before it and n its own; the offset  *)
(* is then o+n, and after the last unit the whole sequence is used.        *)
C23_OffsetsThroughChain ==
  \A c \in Cursors :
    LET cur == cursors[c]
        u == units[cur.statement]
        known == sqltext[c].known
        k == Place(u, sqltext[c])
        RECURSIVE Before(_)
        Before(j) == IF j = 0 THEN 0 ELSE PCount(known[j]) + Before(j - 1)
        o == Before(k - 1)
        n == PCount(u.sql)
    IN (/\ cur.statement # 0
        /\ cur.bindings.kind = "seq"
        /\ \/ cur.status \in {C_BEGIN, C_ROW}
           \/ \E t \in Threads : threads[t].self = c /\ threads[t].pc = "exectrace")
       => /\ gh.bound[c] = [i \in 1 .. n |-> o + i]
          /\ cur.bindingsoffset = o + n
          /\ u.next = 0 => cur.bindingsoffset = Len(cur.bindings.vals)

\* the second statement of a text has taken the second value of the sequence
C23_SecondTakesSecond ==
  /\ threads["t1"].pc = "step"
  /\ cursors["c1"].statement # 0
  /\ units[cursors["c1"].statement].next = 0
  /\ sqltext["c1"].known = <<"A", "A">>
  /\ cursors["c1"].bindings = SeqBindings(<<"v", "v">>)
  /\ gh.bound["c1"] = <<2>>

(* C24: in a batch, when the last statement of the text is over and the    *)
(* iterator yields another binding set, the cursor gives the finished unit *)
(* back, takes the new binding set with the offset at 0, and acquires the  *)
(* first statement of the text remembered by executemany; the statements   *)
(* run text after text, binding set after binding set.                     *)
C24_BatchRestarts ==
  [][\A t \in Threads :
       LET c == threads[t].self
           Lent(us) == {h \in Handles : us[h].live /\ us[h].lent}
       IN /\ (/\ threads[t].pc = "step"
              /\ threads'[t].pc = "stepprepare"
              /\ cursors'[c].statement = 0)
             => /\ units[threads[t].h].next = 0
                /\ Cardinality(Lent(units')) = Cardinality(Lent(units)) - 1
                /\ cursors'[c].bindings.kind \in {"seq", "dict"}
                /\ cursors'[c].bindingsoffset = 0
                /\ cursors'[c].emoriginalquery = 1
                /\ gh'.setidx[c] = gh.setidx[c] + 1
          /\ (/\ threads[t].pc = "stepprepare"
              /\ cursors[c].statement = 0
              /\ cursors'[c].statement # 0)
             => /\ units'[cursors'[c].statement].sql = sqltext'[c].known[1]
                /\ Place(units'[cursors'[c].statement], sqltext'[c]) = 1
                /\ cursors'[c].bindings = cursors[c].bindings
          /\ LogInOrder(c)']_vars

\* a text of two statements has run twice, once for each binding set
C24_TwoByTwo ==
  gh.log["c1"] = << <<1, 1>>, <<1, 2>>, <<2, 1>>, <<2, 2>> >>

(* C25: with an exec tracer set, every unit the cursor acquires and binds  *)
(* goes to the tracer once, its bindings applied, and only the tracer's    *)
(* answer lets the engine take the first step of the unit; when the tracer *)
(* answers false the call fails and the unit is not stepped: the cursor    *)
(* is left in C_DONE, where no row pull steps.                             *)
C25_TracedOncePerUnit ==
  [][\A t \in Threads :
       LET c == threads[t].self
           cur == cursors'[c]
           u == units'[cur.statement]
       IN cursors[c].exectrace =>
            /\ (/\ threads[t].pc \in {"prepare", "stepprepare"}
                /\ threads'[t].pc \notin {"returned", "crashed"})
               => /\ threads'[t].pc = "exectrace"
                  /\ cur.statement # 0 /\ u.rowsleft = NRows(u.sql)
                  /\ cur.bindings.kind = "seq" => Len(gh'.bound[c]) = PCount(u.sql)
            /\ (/\ threads[t].pc = "exectrace"
                /\ threads'[t].pc = "returned"
                /\ result'[t].exc = "ExcTraceAbort")
               => /\ cur.status = C_DONE
                  /\ units' = units
            /\ (threads[t].pc \in {"entry", "rowtrace"} /\ threads'[t].pc = "step")
               => cursors[c].status = C_BEGIN]_vars

\* the tracer has answered false: the call has failed and the unit, still on
\* the cursor, has not been stepped
C25_TraceAborted ==
  /\ Returns("t1", "c1", "executemany")
  /\ result["t1"].exc = "ExcTraceAbort"
  /\ cursors["c1"].statement # 0
  /\ units[cursors["c1"].statement].sql = "C"
  /\ units[cursors["c1"].statement].rowsleft = 2

(* C26: when sqlite3_step answers an error while statements of the text or *)
(* binding sets of the batch remain, the cursor is reset without the check *)
(* for unfinished work: the batch iterator is not asked, and the call      *)
(* fails with the exception that was pending, a callback's, or the         *)
(* engine's, never with ExcIncomplete.                                     *)
C26_FailingResetUnchecked ==
  [][\A t \in Threads :
       LET c == threads[t].self
       IN (/\ StepFails(t)
           /\ units[threads[t].h].next # 0 \/ cursors[c].emiter.present)
          => /\ threads'[t].pc = "returned"
             /\ result'[t].more = ""
             /\ result'[t].exc \in {"CallbackError"} \cup
                  (IF threads[t].err # "" THEN {threads[t].err} ELSE {"SQLError"})
             /\ result'[t].exc # "ExcIncomplete"
             /\ cursors'[c].statement = 0 /\ ~cursors'[c].emiter.present]_vars

\* a batch has failed in the step of its first statement with the engine's
\* error, and the batch iterator has not been asked for more
C26_FailedWithMoreLeft ==
  /\ Returns("t1", "c1", "executemany")
  /\ gh.eng.from = "step"
  /\ result["t1"].more = ""
  /\ result["t1"].exc = "SQLError"
  /\ gh.log["c1"] = <<>>
  /\ gh.setidx["c1"] = 1
  /\ cursors["c1"].statement = 0

(* C27: a cursor holds at most one unit at a time: the units lent by the   *)
(* cache are exactly the units the cursors point to, one for each cursor   *)
(* that has one, so whenever a cursor has acquired a unit (at the start of *)
(* execute or executemany, on the advance to the next statement of the     *)
(* text, on the restart of a batch) the unit it had before is no longer    *)
(* lent.                                                                   *)
C27_OneUnitPerCursor ==
  LET held == {h \in Handles : units[h].live /\ units[h].lent}
      with == {c \in Cursors : cursors[c].statement # 0}
  IN /\ held = {cursors[c].statement : c \in with}
     /\ Cardinality(held) = Cardinality(with)

\* the cursor is on the second statement of the second round of a batch: it
\* has acquired a unit four times, and one unit is lent
C27_FourthUnit ==
  /\ threads["t1"].pc = "step" /\ threads["t1"].op = "executemany"
  /\ gh.log["c1"] = <<<<1, 1>>, <<1, 2>>, <<2, 1>>>>
  /\ cursors["c1"].statement # 0
  /\ Cardinality({h \in Handles : units[h].live /\ units[h].lent}) = 1

(* C28: the engine is never stepped ahead of the caller: of the statement  *)
(* a cursor has in hand and has not finished, the rows sqlite3_step has    *)
(* produced are at most one more than the rows next has returned or the    *)
(* row tracer has filtered.                                                *)
C28_NeverAhead ==
  \A c \in Cursors :
    (cursors[c].statement # 0 /\ cursors[c].status # C_DONE) =>
      LET u == units[cursors[c].statement]
      IN NRows(u.sql) - u.rowsleft <= gh.rows[c] + gh.filtered[c] + 1

(* C29: eviction and the teardown of the cache never finalize a unit that  *)
(* is lent to a cursor.  Whatever a step of another thread does to the     *)
(* cache (a release that evicts, an acquire, Connection.close freeing the  *)
(* pool), a unit lent to a cursor whose thread takes no part is the same   *)
(* unit afterwards and is not in the pool, unless Connection.close has     *)
(* closed the cursor, which then holds no unit; a unit is evicted only in  *)
(* a step that releases one into a full pool, and the pool does not grow;  *)
(* and when Connection.close has freed the cache no unit is left, lent or  *)
(* pooled.                                                                 *)
C29_LentUnitsSurvive ==
  [][LET closing == /\ threads["t1"].pc = "idle"
                    /\ \/ threads'["t1"].pc = "connclose"
                       \/ /\ threads'["t1"].pc = "returned"
                          /\ result'["t1"].op = "connclose"
     IN /\ \A c \in Cursors :
             LET t == IF c = "c1" THEN "t1" ELSE "t2"
                 h == cursors[c].statement
                 g == cursors'[c].statement
             IN (h # 0 /\ threads'[t] = threads[t])
                => \/ closing /\ g = 0
                   \/ /\ g # 0 /\ units'[g] = units[h] /\ units[h].live /\ units[h].lent
                      /\ \A i \in 1 .. Len(pool') : pool'[i] # g
        /\ gh'.evicted # "" => Len(pool) = conn.maxentries /\ Len(pool') <= Len(pool)
        /\ (conn.stmtcache /\ ~conn'.stmtcache)
           => /\ \A c \in Cursors : cursors'[c].statement = 0
              /\ \A h \in Handles : ~units'[h].live]_vars

\* the second cursor has released a unit into the full pool and the cache
\* has evicted one, while the first cursor holds a unit and its thread is idle
C29_EvictedBesideLent ==
  /\ gh.evicted = "c2"
  /\ threads["t2"].pc = "returned" /\ threads["t1"].pc = "idle"
  /\ cursors["c1"].statement # 0
  /\ units[cursors["c1"].statement].live /\ units[cursors["c1"].statement].lent
  /\ Len(pool) = 1

(* C30: a compile that fails adds nothing to the cache.  When the acquire  *)
(* of execute, executemany or a batch restart fails, the units and the     *)
(* pool are what they were before it; when the acquire of the next         *)
(* statement of a text fails, the pool holds what it held, with at most    *)
(* the unit just released added to it; either way no unit is lent          *)
(* afterwards, the cursor holds none, and the call fails (with the         *)
(* engine's error unless an exception was pending already).                *)
C30_FailedCompileAddsNothing ==
  [][\A t \in Threads :
       LET c == threads[t].self
           old == cursors[c].statement
           before == [i \in 1 .. Len(pool) |-> units[pool[i]].sql]
           after == [i \in 1 .. Len(pool') |-> units'[pool'[i]].sql]
       IN (threads[t].pc \in {"prepare", "stepprepare"} /\ gh'.last.ev = "failed")
          => /\ threads'[t].pc = "returned"
             /\ result'[t].val = "NULL"
             /\ result'[t].exc = (IF threads[t].err # "" THEN threads[t].err ELSE "SQLError")
             /\ cursors'[c].statement = 0
             /\ \A h \in Handles : units'[h].live => ~units'[h].lent
             /\ Cardinality({h \in Handles : units'[h].live}) = Len(pool')
             /\ IF old = 0 THEN units' = units /\ pool' = pool
                ELSE after \in {before, Append(before, units[old].sql)} \cup
                                (IF before = <<>> THEN {}
                                 ELSE {Append(Tail(before), units[old].sql)})]_vars

\* execute has failed in the compile of its statement while the pool holds a
\* unit of an earlier call
C30_CompileFailed ==
  /\ Returns("t1", "c1", "execute")
  /\ gh.last.ev = "failed"
  /\ result["t1"].exc = "SQLError"
  /\ cursors["c1"].statement = 0
  /\ Len(pool) = 1

(* C31: when the engine reports an error for a unit that evict_all         *)
(* finalizes, the cache still ends with no live unit, and Connection.close *)
(* fails with that error.                                                  *)
C31_EvictErrorReported ==
  (/\ threads["t1"].pc = "returned" /\ result["t1"].op = "connclose"
   /\ gh.eng.from = "evict")
  => /\ \A h \in Handles : ~units[h].live
     /\ result["t1"].exc = "SQLError"

(* C32: whenever the status of a cursor is C_BEGIN or C_ROW the cursor     *)
(* holds a live unit, and a thread that enters sqlite3_step enters it with *)
(* the unit of its cursor.                                                 *)
C32_StatusMeansUnit ==
  /\ \A c \in Cursors :
       cursors[c].status \in {C_BEGIN, C_ROW}
         => cursors[c].statement # 0 /\ units[cursors[c].statement].live
  /\ \A t \in Threads :
       threads[t].pc = "step"
         => threads[t].h # 0 /\ threads[t].h = cursors[threads[t].self].statement

(* C33: the in-use flag of a cursor is clear whenever no call is under way *)
(* on it: execute, executemany, next and close leave it at 0 on every way  *)
(* out, the failing ones included.                                         *)
C33_FlagClearAtRest ==
  \A c \in Cursors :
    (\A t \in Threads : threads[t].pc # "crashed" /\ ~InFlight(t, c))
      => cursors[c].inuse = 0

\* a batch has failed between two rounds in the compile of its statement,
\* inside the flagged call of the cache, and the flag is clear
C33_FailedInsideFlag ==
  /\ Returns("t1", "c1", "next")
  /\ gh.last.ev = "failed"
  /\ gh.setidx["c1"] = 2
  /\ result["t1"].exc = "SQLError"
  /\ cursors["c1"].inuse = 0

(* C34: whenever close on a cursor reports failure (returns NULL) an       *)
(* exception is set for the caller, with force false and with force true.  *)
C34_CloseFailsWithError ==
  \A t \in Threads :
    (threads[t].pc = "returned" /\ result[t].op = "close" /\ result[t].val = "NULL")
      => result[t].exc \notin {"", "SystemError"}

\* execute or executemany is called on a cursor that is not DONE and has
\* statements of its text left, or whose reset finds a binding set left in
\* its batch
ExecutesUnfinished(t) ==
  /\ Enters(t)
  /\ Entered(t) \in {"execute", "executemany"}
  /\ LET cur == cursors[threads'[t].self]
     IN /\ cur.inuse = 0
        /\ cur.status # C_DONE
        /\ \/ cur.statement # 0 /\ units[cur.statement].next # 0
           \/ /\ cur.emiter.present
              /\ threads'[t].pc = "returned" /\ result'[t].more = "item"
              \* executemany overwrites the answer with its new iterator's
              /\ \/ Entered(t) = "execute"
                 \/ ~cursors'[threads'[t].self].emiter.present

C36_ReadsInsideSequence ==
  [][\A t \in Threads :
       LET c == threads[t].self
           cur == cursors'[c]
           n == PCount(units'[cur.statement].sql)
           sz == Len(cur.bindings.vals)
       IN (/\ threads[t].pc \in {"prepare", "stepprepare"}
           /\ threads'[t].pc \notin {"prepare", "stepprepare"}
           /\ cur.statement # 0
           /\ cur.bindings.kind = "seq")
          => /\ threads'[t].pc # "crashed"
             /\ threads[t].pc = "stepprepare" => cursors[c].bindingsoffset >= 0
             /\ \A i \in 1 .. Len(gh'.bound[c]) : gh'.bound[c][i] \in 1 .. sz
             /\ threads'[t].pc \in {"exectrace", "step"}
                  => /\ 0 <= cur.bindingsoffset - n
                     /\ cur.bindingsoffset <= sz
                     /\ Len(gh'.bound[c]) = n]_vars

\* the second binding set of a batch has been bound from its first value on
C36_SecondSetFromStart ==
  /\ threads["t1"].pc = "step"
  /\ gh.setidx["c1"] = 2
  /\ cursors["c1"].bindings = SeqBindings(<<"v">>)
  /\ gh.bound["c1"] = <<1>>
  /\ cursors["c1"].bindingsoffset = 1

(* C37: a connection that is open and not inside a call owns a statement   *)
(* cache; a Connection.close that fails, with a dependent's close failing  *)
(* or with the engine refusing to close, leaves the cache in place.        *)
C37_OpenOwnsCache ==
  (conn.db /\ conn.inuse = 0) => conn.stmtcache

C39_ArityCheckedLazily ==
  [][\A t \in Threads :
       LET c == threads'[t].self
           new == cursors'[c]
           u == units'[new.statement]
           known == sqltext'[c].known
           k == Place(u, sqltext'[c])
           left == Len(new.bindings.vals) - new.bindingsoffset
           RECURSIVE Before(_)
           Before(j) == IF j = 0 THEN 0 ELSE PCount(known[j]) + Before(j - 1)
           Ran(j) == \E i \in 1 .. Len(gh'.log[c]) : gh'.log[c][i] = <<gh'.setidx[c], j>>
       IN /\ (/\ threads[t].pc = "stepprepare"
              /\ threads'[t].pc = "returned"
              /\ new.statement # 0
              /\ new.bindings.kind = "seq"
              /\ k >= 2
              /\ IF u.next = 0 THEN left # PCount(u.sql) ELSE left < PCount(u.sql))
             => /\ result'[t].exc = "ExcBindings" /\ result'[t].val = "NULL"
                /\ \A j \in 1 .. k - 1 : Ran(j)
                /\ ~Ran(k)
                /\ new.bindingsoffset = Before(k - 1)
                /\ gh'.bound[c] = <<>>
                /\ u.rowsleft = NRows(u.sql)
                /\ new.status = C_DONE
          /\ (/\ Enters(t) /\ Entered(t) = "close" /\ ~result'[t].force
              /\ cursors[c].status = C_DONE)
             => result'[t].exc # "ExcIncomplete"]_vars

\* the first statement of a text of two has run with the first of two
\* values, and the second, which takes none, has failed in its bindings
C39_SecondRefused ==
  /\ threads["t1"].pc = "returned"
  /\ result["t1"].exc = "ExcBindings"
  /\ sqltext["c1"].known = <<"A", "B">>
  /\ cursors["c1"].bindings = SeqBindings(<<"v", "v">>)
  /\ cursors["c1"].bindingsoffset = 1
  /\ cursors["c1"].statement # 0
  /\ gh.log["c1"] = << <<1, 1>> >>
  /\ cursors["c1"].status = C_DONE

-----------------------------------------------------------------------------

Next ==
  \/ \E sz \in CacheSizes : Connection_init(sz)
  \/ \E t \in Threads, c \in Cursors : Execute(t, c)
  \/ \E t \in Threads, c \in Cursors : ExecuteMany(t, c)
  \/ \E t \in Threads, c \in Cursors : NextRowCall(t, c)
  \/ \E t \in Threads, c \in Cursors : Close(t, c)
  \/ \E t \in Threads : Prepared(t)
  \/ \E t \in Threads : ExecTraced(t)
  \/ \E t \in Threads : Stepped(t)
  \/ \E t \in Threads : StepPrepared(t)
  \/ \E t \in Threads : RowTraced(t)
  \/ \E t \in Threads : Returned(t)
  \/ \E t \in Threads : ConnClose(t)
  \/ \E t \in Threads : ConnClosed(t)

Spec == Init /\ [][Next]_vars

SpecOwn == InitOwn /\ [][Next]_vars

SpecShared == InitShared /\ [][Next]_vars

SpecPooled == InitPooled /\ [][Next]_vars

====
